---------------------------- MODULE Spec2Model ----------------------------
(***************************************************************************)
(* Program construction and session-cap enforcement of the personal        *)
(* trainer copilot (src/src/program_builder.py, src/src/time_cap.py).      *)
(*                                                                         *)
(* Python strings on which the code computes (sets_reps, goal keys) are    *)
(* tuples of one-character strings, so that the regular expression of      *)
(* time_cap.py and the normalisation of resolve_goal_key are computed      *)
(* character by character.  Strings the code only copies (titles, keys of  *)
(* days, guidance texts) are TLA+ strings.  A formatted string (f"...")    *)
(* is the tuple of its literal and interpolated segments.                  *)
(***************************************************************************)
EXTENDS Integers, Sequences, FiniteSets, TLC

VARIABLES
    entry,            \* "build": build_program is called; "enforce": the enforcer alone
    templates_cfg,    \* config/program_templates.json as loaded
    progression_cfg,  \* config/progression_rules.json as loaded
    profile,          \* the caller's profile
    days,             \* the requested day count
    goal,             \* the requested goal string
    program,          \* the program under construction (NoProgram before assembly)
    pc,               \* position in build_program / enforce_session_duration_cap
    cap,              \* local variable cap of enforce_session_duration_cap
    di,               \* index of the day the enforcer is working on
    iters,            \* executions of the while body for the current day
    start_sets,       \* total set count of the current day when its loop began
    error,            \* the exception raised, if any
    run,              \* 1 for the first call, 2 for the repeated call
    first,            \* outcome of the first call (<<>> until it ended)
    files,            \* the files of the command-line workflow (NoFiles elsewhere)
    result,           \* the last command of the workflow and how it ended
    done              \* the command handlers that have completed so far

vars == <<entry, templates_cfg, progression_cfg, profile, days, goal, program,
          pc, cap, di, iters, start_sets, error, run, first, files, result, done>>

\* the state of the command-line workflow
cli == <<files, result, done>>

\* the state of one call of build_program, the enforcer or a validator
builder == <<entry, templates_cfg, progression_cfg, profile, days, goal, program,
             pc, cap, di, iters, start_sets, error, run, first>>

(***************************************************************************)
(* Bounds of the model.                                                    *)
(***************************************************************************)
MaxDays == 5        \* requested day counts range over 0..MaxDays
MaxIters == 22      \* the iteration counter saturates here
MaxSets == 3        \* set counts of the estimator specification: 0..MaxSets
MaxGymDays == 6     \* gym_days of the profiles given to validate_profile: 0..MaxGymDays
MaxLen == 4         \* length of the strings given to parse_set_count and replace_set_count

(***************************************************************************)
(* Characters and string helpers (Python str methods).                     *)
(***************************************************************************)
Whitespace == {" "}
DigitChars == <<"0", "1", "2", "3", "4", "5", "6", "7", "8", "9">>
UpperChars == <<"A", "B", "C", "D", "E", "F", "G", "H", "I", "J", "K", "L", "M",
                "N", "O", "P", "Q", "R", "S", "T", "U", "V", "W", "X", "Y", "Z">>
LowerChars == <<"a", "b", "c", "d", "e", "f", "g", "h", "i", "j", "k", "l", "m",
                "n", "o", "p", "q", "r", "s", "t", "u", "v", "w", "x", "y", "z">>

IsDigit(c) == \E i \in 1..10 : DigitChars[i] = c

DigitVal(c) == (CHOOSE i \in 1..10 : DigitChars[i] = c) - 1

\* str.lower() on one character
LowerOf == [u \in {UpperChars[i] : i \in 1..26} |->
                LowerChars[CHOOSE i \in 1..26 : UpperChars[i] = u]]

LowerChar(c) == IF c \in DOMAIN LowerOf THEN LowerOf[c] ELSE c

\* str.lower()
Lower(s) == [i \in 1..Len(s) |-> LowerChar(s[i])]

\* str.replace(old, new) for a one-character old
ReplaceChar(s, old, new) == [i \in 1..Len(s) |-> IF s[i] = old THEN new ELSE s[i]]

RECURSIVE LStrip(_)
LStrip(s) == IF s # <<>> /\ s[1] \in Whitespace THEN LStrip(Tail(s)) ELSE s

RECURSIVE RStrip(_)
RStrip(s) ==
    IF s # <<>> /\ s[Len(s)] \in Whitespace THEN RStrip(SubSeq(s, 1, Len(s) - 1)) ELSE s

\* str.strip()
Strip(s) == RStrip(LStrip(s))

\* needle in hay
Contains(hay, needle) ==
    \E i \in 1..(Len(hay) - Len(needle) + 1) : SubSeq(hay, i, i + Len(needle) - 1) = needle

\* number of leading digits (the greedy \d+)
RECURSIVE DigitRun(_)
DigitRun(s) == IF s # <<>> /\ IsDigit(s[1]) THEN 1 + DigitRun(Tail(s)) ELSE 0

\* int("<digits>")
RECURSIVE DigitsToInt(_)
DigitsToInt(ds) ==
    IF ds = <<>> THEN 0
    ELSE 10 * DigitsToInt(SubSeq(ds, 1, Len(ds) - 1)) + DigitVal(ds[Len(ds)])

\* str(n) for n >= 0
RECURSIVE IntToStr(_)
IntToStr(n) ==
    IF n < 10 THEN <<DigitChars[n + 1]>>
    ELSE IntToStr(n \div 10) \o <<DigitChars[(n % 10) + 1]>>

(***************************************************************************)
(* String literals of the inputs.                                          *)
(***************************************************************************)
Str_4x6_8 == <<"4", " ", "x", " ", "6", "-", "8">>
Str_4x8_10 == <<"4", " ", "x", " ", "8", "-", "1", "0">>
Str_3x12 == <<"3", " ", "x", " ", "1", "2">>
Str_3x8_12 == <<"3", " ", "x", " ", "8", "-", "1", "2">>
Str_3x10_15 == <<"3", " ", "x", " ", "1", "0", "-", "1", "5">>
Str_2x10_12 == <<"2", " ", "x", " ", "1", "0", "-", "1", "2">>
Str_heavy == <<"h", "e", "a", "v", "y">>
Str_3x == <<"3", " ", "x">>
Str_5X5 == <<"5", " ", "X", " ", "5">>
Str_1x20 == <<"1", " ", "x", " ", "2", "0">>
Str_0x5 == <<"0", "x", "5">>
Str_04x6 == <<" ", "0", "4", " ", "x", " ", " ", "6", " ">>
Str_fat_loss == <<"f", "a", "t", "_", "l", "o", "s", "s">>
Str_general_fitness == <<"g", "e", "n", "e", "r", "a", "l", "_", "f", "i", "t", "n", "e", "s", "s">>
Str_strength == <<"s", "t", "r", "e", "n", "g", "t", "h">>
Str_cut == <<"c", "u", "t">>
Str_Fat_Loss_bang == <<"F", "a", "t", " ", "L", "o", "s", "s", "!">>
Str_Fat_dash_Loss == <<" ", "F", "a", "t", "-", "L", "o", "s", "s", " ">>
Str_alice == <<"a", "l", "i", "c", "e">>
Str_Bob_Smith == <<"B", "o", "b", " ", "S", "m", "i", "t", "h">>
Str_item == <<"i", "t", "e", "m">>
Str_dashes == <<"-", "-">>
Str_4x4_6 == <<"4", " ", "x", " ", "4", "-", "6">>
Str_3x6_8 == <<"3", " ", "x", " ", "6", "-", "8">>
Str_4x6_10 == <<"4", " ", "x", " ", "6", "-", "1", "0">>
Str_3x6_10 == <<"3", " ", "x", " ", "6", "-", "1", "0">>
Str_core_2x30 == <<"2", " ", "x", " ", "3", "0", "-", "4", "5", " ", "s", "e", "c", " ", "o", "r", " ", "8", "-", "1", "2", " ", "r", "e", "p", "s">>
Str_core_2x10 == <<"2", " ", "x", " ", "1", "0", "-", "1", "2", " ", "r", "e", "p", "s", " ", "o", "r", " ", "3", "0", "-", "4", "5", " ", "s", "e", "c">>
Str_core_3x10 == <<"3", " ", "x", " ", "1", "0", "-", "1", "5", " ", "r", "e", "p", "s", " ", "o", "r", " ", "3", "0", "-", "6", "0", " ", "s", "e", "c">>
Str_muscle_gain == <<"m", "u", "s", "c", "l", "e", "_", "g", "a", "i", "n">>
Name_Squat == <<"S", "q", "u", "a", "t">>
Name_Row == <<"R", "o", "w">>
Name_Overhead_Press == <<"O", "v", "e", "r", "h", "e", "a", "d", " ", "P", "r", "e", "s", "s">>
Name_Deadlift == <<"D", "e", "a", "d", "l", "i", "f", "t">>
Name_Plank == <<"P", "l", "a", "n", "k">>
Name_Lunge == <<"L", "u", "n", "g", "e">>
Name_Bench_Press == <<"B", "e", "n", "c", "h", " ", "P", "r", "e", "s", "s">>
Name_Lat_Pulldown == <<"L", "a", "t", " ", "P", "u", "l", "l", "d", "o", "w", "n">>
Name_Hip_Thrust == <<"H", "i", "p", " ", "T", "h", "r", "u", "s", "t">>
Name_Dead_Bug == <<"D", "e", "a", "d", " ", "B", "u", "g">>
Name_Leg_Press == <<"L", "e", "g", " ", "P", "r", "e", "s", "s">>
Name_Push_Up == <<"P", "u", "s", "h", "-", "U", "p">>
Name_Pull_Up == <<"P", "u", "l", "l", "-", "U", "p">>
Name_Bridge_Single_Leg ==
    <<"B", "r", "i", "d", "g", "e", " ", "S", "i", "n", "g", "l", "e", " ", "L", "e", "g">>
Name_Press_Up == <<"P", "r", "e", "s", "s", " ", "U", "p">>
Name_Chest_Supported_Row ==
    <<"C", "h", "e", "s", "t", "-", "S", "u", "p", "p", "o", "r", "t", "e", "d", " ", "R",
      "o", "w">>
Name_Flat_Dumbbell_Bench_Press ==
    <<"F", "l", "a", "t", " ", "D", "u", "m", "b", "b", "e", "l", "l", " ", "B", "e", "n",
      "c", "h", " ", "P", "r", "e", "s", "s">>
Name_Romanian_Deadlift ==
    <<"R", "o", "m", "a", "n", "i", "a", "n", " ", "D", "e", "a", "d", "l", "i", "f", "t">>
Name_Cable_Pallof_Press ==
    <<"C", "a", "b", "l", "e", " ", "P", "a", "l", "l", "o", "f", " ", "P", "r", "e", "s",
      "s">>
Name_Goblet_Squat == <<"G", "o", "b", "l", "e", "t", " ", "S", "q", "u", "a", "t">>
Name_Seated_Cable_Row ==
    <<"S", "e", "a", "t", "e", "d", " ", "C", "a", "b", "l", "e", " ", "R", "o", "w">>
Name_Incline_Dumbbell_Bench_Press ==
    <<"I", "n", "c", "l", "i", "n", "e", " ", "D", "u", "m", "b", "b", "e", "l", "l", " ",
      "B", "e", "n", "c", "h", " ", "P", "r", "e", "s", "s">>
Name_Dumbbell_Hip_Thrust ==
    <<"D", "u", "m", "b", "b", "e", "l", "l", " ", "H", "i", "p", " ", "T", "h", "r", "u",
      "s", "t">>
Name_Dumbbell_Split_Squat ==
    <<"D", "u", "m", "b", "b", "e", "l", "l", " ", "S", "p", "l", "i", "t", " ", "S", "q",
      "u", "a", "t">>
Name_Machine_Chest_Press ==
    <<"M", "a", "c", "h", "i", "n", "e", " ", "C", "h", "e", "s", "t", " ", "P", "r", "e",
      "s", "s">>
Name_Cable_Pull_Through ==
    <<"C", "a", "b", "l", "e", " ", "P", "u", "l", "l", "-", "T", "h", "r", "o", "u", "g",
      "h">>
Name_Front_Plank == <<"F", "r", "o", "n", "t", " ", "P", "l", "a", "n", "k">>
Name_Overhead_Dumbbell_Press ==
    <<"O", "v", "e", "r", "h", "e", "a", "d", " ", "D", "u", "m", "b", "b", "e", "l", "l",
      " ", "P", "r", "e", "s", "s">>
Name_One_Arm_Cable_Row ==
    <<"O", "n", "e", "-", "A", "r", "m", " ", "C", "a", "b", "l", "e", " ", "R", "o", "w">>
Name_Bulgarian_Split_Squat ==
    <<"B", "u", "l", "g", "a", "r", "i", "a", "n", " ", "S", "p", "l", "i", "t", " ", "S",
      "q", "u", "a", "t">>
Name_Hamstring_Curl_Machine ==
    <<"H", "a", "m", "s", "t", "r", "i", "n", "g", " ", "C", "u", "r", "l", " ", "M", "a",
      "c", "h", "i", "n", "e">>
Name_Side_Plank == <<"S", "i", "d", "e", " ", "P", "l", "a", "n", "k">>
Name_Trap_Bar_Deadlift ==
    <<"T", "r", "a", "p", " ", "B", "a", "r", " ", "D", "e", "a", "d", "l", "i", "f", "t">>
Name_Incline_Push_up ==
    <<"I", "n", "c", "l", "i", "n", "e", " ", "P", "u", "s", "h", "-", "u", "p">>
Name_Walking_Lunge == <<"W", "a", "l", "k", "i", "n", "g", " ", "L", "u", "n", "g", "e">>
Name_Assisted_Pull_up ==
    <<"A", "s", "s", "i", "s", "t", "e", "d", " ", "P", "u", "l", "l", "-", "u", "p">>
Name_Bird_Dog == <<"B", "i", "r", "d", " ", "D", "o", "g">>

(***************************************************************************)
(* time_cap.py                                                             *)
(***************************************************************************)
\* re.match(r"^\s*(\d+)\s*x\s*(.+)$", text, re.IGNORECASE): the digits and the
\* text after "x", or ok = FALSE.  The alphabet has no newline, so "." is any
\* character.
SetsRegex(text) ==
    LET nd == DigitRun(text)
        afterDigits == LStrip(SubSeq(text, nd + 1, Len(text)))
        rest == IF afterDigits = <<>> THEN <<>> ELSE LStrip(Tail(afterDigits))
    IN  IF nd > 0 /\ afterDigits # <<>> /\ afterDigits[1] \in {"x", "X"} /\ rest # <<>>
        THEN [ok |-> TRUE, digits |-> SubSeq(text, 1, nd), rest |-> rest]
        ELSE [ok |-> FALSE, digits |-> <<>>, rest |-> <<>>]

ParseZeroAsDefault(sets_reps, default) ==
    LET m == SetsRegex(Strip(sets_reps))
    IN  IF ~m.ok \/ DigitsToInt(m.digits) = 0 THEN default ELSE DigitsToInt(m.digits)

parse_set_count(sets_reps, default) ==
    LET m == SetsRegex(Strip(sets_reps))
    IN  IF ~m.ok THEN default ELSE DigitsToInt(m.digits)

ReplaceCaseSensitive(sets_reps, new_sets) ==
    LET text == Strip(sets_reps)
        m == SetsRegex(text)
    IN  IF ~m.ok \/ "X" \in {text[i] : i \in 1..Len(text)} THEN text
        ELSE IntToStr(new_sets) \o <<" ", "x", " ">> \o m.rest

replace_set_count(sets_reps, new_sets) ==
    LET text == Strip(sets_reps)
        m == SetsRegex(text)
    IN  IF ~m.ok THEN text ELSE IntToStr(new_sets) \o <<" ", "x", " ">> \o m.rest

\* max(set_counts) if set_counts else 3
Rounds(superset) ==
    LET exs == superset.exercises
        counts == {parse_set_count(exs[j].sets_reps, 3) : j \in 1..Len(exs)}
    IN  IF counts = {} THEN 3 ELSE CHOOSE m \in counts : \A n \in counts : n <= m

RECURSIVE SumRounds(_)
SumRounds(supersets) ==
    IF supersets = <<>> THEN 0 ELSE Rounds(supersets[1]) + SumRounds(Tail(supersets))

\* the float `minutes` before rounding, in half minutes (every term is a
\* multiple of 0.5): 5.0 + 3.5 per round + (1.5 per core set + 1.0) + 4.0
HalfMinutes(day) ==
    10 + 7 * SumRounds(day.supersets) + (3 * parse_set_count(day.core.sets_reps, 2) + 2) + 8

RoundHalfUp(h) == (h + 1) \div 2

\* int(round(minutes)): Python 3 rounds a half to the even neighbour
PyRound(h) ==
    LET q == h \div 2
    IN  IF h % 2 = 0 THEN q ELSE IF q % 2 = 0 THEN q ELSE q + 1

estimate_day_duration_minutes(day) == PyRound(HalfMinutes(day))

(***************************************************************************)
(* program_builder.py                                                      *)
(***************************************************************************)
Kw_leg_press == <<"l", "e", "g", " ", "p", "r", "e", "s", "s">>
Kw_squat == <<"s", "q", "u", "a", "t">>
Kw_split_squat == <<"s", "p", "l", "i", "t", " ", "s", "q", "u", "a", "t">>
Kw_lunge == <<"l", "u", "n", "g", "e">>
Kw_deadlift == <<"d", "e", "a", "d", "l", "i", "f", "t">>
Kw_hip_thrust == <<"h", "i", "p", " ", "t", "h", "r", "u", "s", "t">>
Kw_pull_through == <<"p", "u", "l", "l", "-", "t", "h", "r", "o", "u", "g", "h">>
Kw_back_extension == <<"b", "a", "c", "k", " ", "e", "x", "t", "e", "n", "s", "i", "o", "n">>
Kw_hamstring_curl == <<"h", "a", "m", "s", "t", "r", "i", "n", "g", " ", "c", "u", "r", "l">>
Kw_bench_press == <<"b", "e", "n", "c", "h", " ", "p", "r", "e", "s", "s">>
Kw_chest_press == <<"c", "h", "e", "s", "t", " ", "p", "r", "e", "s", "s">>
Kw_push_up == <<"p", "u", "s", "h", "-", "u", "p">>
Kw_overhead == <<"o", "v", "e", "r", "h", "e", "a", "d">>
Kw_row == <<"r", "o", "w">>
Kw_lat_pulldown == <<"l", "a", "t", " ", "p", "u", "l", "l", "d", "o", "w", "n">>
Kw_pull_up == <<"p", "u", "l", "l", "-", "u", "p">>
Kw_plank == <<"p", "l", "a", "n", "k">>
Kw_dead_bug == <<"d", "e", "a", "d", " ", "b", "u", "g">>
Kw_pallof == <<"p", "a", "l", "l", "o", "f">>
Kw_bird_dog == <<"b", "i", "r", "d", " ", "d", "o", "g">>

MovementOrder ==
    <<"knee_dominant", "hinge", "horizontal_push", "horizontal_pull", "vertical", "core">>

MOVEMENT_KEYWORDS ==
    [knee_dominant |-> {Kw_leg_press, Kw_squat, Kw_split_squat, Kw_lunge},
     hinge |-> {Kw_deadlift, Kw_hip_thrust, Kw_pull_through, Kw_back_extension,
                Kw_hamstring_curl},
     horizontal_push |-> {Kw_bench_press, Kw_chest_press, Kw_push_up, Kw_overhead},
     horizontal_pull |-> {Kw_row},
     vertical |-> {Kw_lat_pulldown, Kw_pull_up, Kw_overhead},
     core |-> {Kw_plank, Kw_dead_bug, Kw_pallof, Kw_bird_dog}]

NoError == [kind |-> "none", msg |-> <<>>]

ValueError(msg) == [kind |-> "ValueError", msg |-> msg]

KeyError(key) == [kind |-> "KeyError", msg |-> <<"KeyError", key>>]

\* an absent dict entry is <<>>, a present one <<value>>
Absent == <<>>

Present(v) == <<v>>

DayFields == <<"key", "title", "warmup", "main_work", "supersets", "core", "finisher">>

ExerciseFields == <<"name", "sets_reps", "note", "canonical_key", "alternatives">>

\* the fields a dict lacks, in the order the code looks for them
MissingFields(dict, fields) == SelectSeq(fields, LAMBDA f : f \notin DOMAIN dict)

\* the first exception of a sequence of checks
FirstError(errors) ==
    LET raised == SelectSeq(errors, LAMBDA e : e.kind # "none")
    IN  IF raised = <<>> THEN NoError ELSE raised[1]

ExerciseError(exercise) ==
    IF MissingFields(exercise, ExerciseFields) # <<>>
    THEN ValueError(<<"Exercise missing field '",
                      MissingFields(exercise, ExerciseFields)[1], "'">>)
    ELSE NoError

SupersetError(superset) ==
    IF "exercises" \notin DOMAIN superset
    THEN ValueError(<<"Superset template missing 'exercises'">>)
    ELSE FirstError([j \in 1..Len(superset.exercises) |->
                        ExerciseError(superset.exercises[j])])

\* the body of `for day in config["days"]`
DayTemplateError(day) ==
    IF MissingFields(day, DayFields) # <<>>
    THEN ValueError(<<"Day template missing field '", MissingFields(day, DayFields)[1], "'">>)
    ELSE IF FirstError([i \in 1..Len(day.supersets) |-> SupersetError(day.supersets[i])])
            # NoError
    THEN FirstError([i \in 1..Len(day.supersets) |-> SupersetError(day.supersets[i])])
    ELSE IF MissingFields(day.core, ExerciseFields) # <<>>
    THEN ValueError(<<"Core exercise missing field '",
                      MissingFields(day.core, ExerciseFields)[1], "'">>)
    ELSE NoError

\* the exception validate_templates_config raises, or NoError (a "days" or
\* "defaults" entry of the wrong type is not among the inputs)
validate_templates_config(config) ==
    IF "days" \notin DOMAIN config
    THEN ValueError(<<"config/program_templates.json must contain 'days' list">>)
    ELSE IF "defaults" \notin DOMAIN config
    THEN ValueError(<<"config/program_templates.json must contain 'defaults' object">>)
    ELSE FirstError([n \in 1..Len(config.days) |-> DayTemplateError(config.days[n])])

validate_progression_config(config) ==
    IF "goal_profiles" \notin DOMAIN config
    THEN ValueError(<<"config/progression_rules.json must contain 'goal_profiles' object">>)
    ELSE NoError

\* (goal or "").strip().lower().replace("-", "_").replace(" ", "_")
NormalizeGoal(g) == ReplaceChar(ReplaceChar(Lower(Strip(g)), "-", "_"), " ", "_")

resolve_goal_key(g, cfg) ==
    LET key == NormalizeGoal(g)
        profiles == cfg.goal_profiles
        aliases == IF "goal_aliases" \in DOMAIN cfg THEN cfg.goal_aliases ELSE <<>>
    IN  IF key \in DOMAIN profiles THEN key
        ELSE IF key \in DOMAIN aliases /\ aliases[key] \in DOMAIN profiles THEN aliases[key]
        ELSE IF "default_goal" \in DOMAIN cfg THEN cfg.default_goal
        ELSE Str_general_fitness

\* the loop body of apply_goal_rules for one day
GoalDayFirstOnly(day, gp) ==
    [day EXCEPT
        !.supersets = [i \in 1..Len(day.supersets) |->
            [day.supersets[i] EXCEPT !.exercises =
                [j \in 1..Len(day.supersets[i].exercises) |->
                    [day.supersets[i].exercises[j] EXCEPT
                        !.sets_reps = gp.first_pair]]]],
        !.core = [day.core EXCEPT !.sets_reps = gp.core_scheme],
        !.finisher = gp.finisher]

GoalDay(day, gp) ==
    [day EXCEPT
        !.supersets = [i \in 1..Len(day.supersets) |->
            [day.supersets[i] EXCEPT !.exercises =
                [j \in 1..Len(day.supersets[i].exercises) |->
                    [day.supersets[i].exercises[j] EXCEPT
                        !.sets_reps = IF i = 1 THEN gp.first_pair ELSE gp.second_pair]]]],
        !.core = [day.core EXCEPT !.sets_reps = gp.core_scheme],
        !.finisher = gp.finisher]

\* apply_goal_rules once the goal profile was looked up
apply_goal_rules(prog, cfg, g) ==
    LET resolved == resolve_goal_key(g, cfg)
        gp == cfg.goal_profiles[resolved]
    IN  [prog EXCEPT
            !.days = [i \in 1..Len(prog.days) |-> GoalDay(prog.days[i], gp)],
            !.goal = resolved]

RECURSIVE Join(_)
Join(strs) ==
    IF strs = <<>> THEN <<>>
    ELSE IF Len(strs) = 1 THEN strs[1]
    ELSE strs[1] \o <<" ">> \o Join(Tail(strs))

RECURSIVE Flatten(_)
Flatten(supersets) ==
    IF supersets = <<>> THEN <<>> ELSE supersets[1].exercises \o Flatten(Tail(supersets))

\* sum(len(ss["exercises"]) for ss in day["supersets"]) + 1
ExerciseCount(day) == Len(Flatten(day.supersets)) + 1

\* the string `names` of one day
DayNames(day) ==
    LET exs == Flatten(day.supersets)
    IN  Join([j \in 1..Len(exs) |-> Lower(exs[j].name)]) \o <<" ">> \o Lower(day.core.name)

\* movement_hits[category] after the loop over the days, `names` being the
\* sequence of the days' name strings
MovementHit(names, category) ==
    \E i \in 1..Len(names) :
        \E kw \in MOVEMENT_KEYWORDS[category] : Contains(names[i], kw)

MissingMovements(prog) ==
    LET names == [i \in 1..Len(prog.days) |-> DayNames(prog.days[i])]
    IN  SelectSeq(MovementOrder, LAMBDA c : ~MovementHit(names, c))

\* int(program.get("session_cap_minutes") or
\*     program.get("profile", {}).get("session_length_minutes", 0) or 0)
ValidatorCap(prog) ==
    IF prog.session_cap_minutes # Absent /\ prog.session_cap_minutes[1] # 0
    THEN prog.session_cap_minutes[1]
    ELSE IF "session_length_minutes" \in DOMAIN prog.profile
    THEN prog.profile.session_length_minutes
    ELSE 0

AlwaysRecompute(day) == estimate_day_duration_minutes(day)

LargerOfBoth(day) ==
    IF day.estimated_duration_min # Absent
       /\ day.estimated_duration_min[1] > estimate_day_duration_minutes(day)
    THEN day.estimated_duration_min[1]
    ELSE estimate_day_duration_minutes(day)

\* int(day.get("estimated_duration_min") or estimate_day_duration_minutes(day))
ValidatorEstimate(day) ==
    IF day.estimated_duration_min # Absent /\ day.estimated_duration_min[1] # 0
    THEN day.estimated_duration_min[1]
    ELSE estimate_day_duration_minutes(day)

NoCapCheck(prog) == {}

\* the days the session-cap check of validate_program_constraints rejects
OverCapDays(prog) ==
    IF ValidatorCap(prog) > 0
    THEN {i \in 1..Len(prog.days) : ValidatorEstimate(prog.days[i]) > ValidatorCap(prog)}
    ELSE {}

CountsNeverChecked(prog) == FALSE

\* not all(4 <= n <= 6 for n in per_day_counts)
CountOutOfRange(prog) ==
    \E i \in 1..Len(prog.days) :
        ExerciseCount(prog.days[i]) < 4 \/ ExerciseCount(prog.days[i]) > 6

\* the exception validate_program_constraints raises, or NoError
validate_program_constraints(prog) ==
    IF CountOutOfRange(prog)
    THEN ValueError(<<"Each day must have 4-6 exercises including core.">>)
    ELSE IF MissingMovements(prog) # <<>>
    THEN ValueError(<<"Program missing movement patterns: ", MissingMovements(prog)>>)
    ELSE IF OverCapDays(prog) # {}
    THEN LET i == CHOOSE k \in OverCapDays(prog) : \A m \in OverCapDays(prog) : k <= m
             day == prog.days[i]
         IN  ValueError(<<day.title, " estimated at ", ValidatorEstimate(day),
                          " min, exceeds cap ", ValidatorCap(prog), " min.">>)
    ELSE NoError

\* templates_cfg["days"][:days]
PySlicePrefix(seq, n) ==
    IF n >= 0
    THEN SubSeq(seq, 1, IF n < Len(seq) THEN n ELSE Len(seq))
    ELSE SubSeq(seq, 1, IF Len(seq) + n > 0 THEN Len(seq) + n ELSE 0)

\* the value of one entry of program_days
ProgramDay(d) ==
    [key |-> d.key, title |-> d.title, warmup |-> d.warmup, main_work |-> d.main_work,
     supersets |-> d.supersets, core |-> d.core, finisher |-> d.finisher,
     estimated_duration_min |-> Absent]

\* the dict comprehension {d["key"]: {...} for d in selected_days}: a key keeps the
\* position of its first template and the value of its last one
ProgramDays(selected) ==
    LET firsts == SelectSeq([i \in 1..Len(selected) |-> i],
                            LAMBDA i : \A j \in 1..(i - 1) : selected[j].key # selected[i].key)
        last(k) == CHOOSE j \in 1..Len(selected) :
                       /\ selected[j].key = k
                       /\ \A m \in (j + 1)..Len(selected) : selected[m].key # k
    IN  [n \in 1..Len(firsts) |-> ProgramDay(selected[last(selected[firsts[n]].key)])]

\* build_program up to the call of apply_goal_rules
Assemble(tcfg, pcfg, prof, ndays, g) ==
    LET program_days == ProgramDays(PySlicePrefix(tcfg.days, ndays))
        defaults == tcfg.defaults
    IN  [profile |-> prof,
         goal |-> g,
         weekly_structure |-> defaults.weekly_structure,
         days |-> program_days,
         substitution_map |-> defaults.substitution_map,
         superset_rules |-> defaults.superset_rules,
         progression_rules |-> IF "progression_rules" \in DOMAIN pcfg
                               THEN pcfg.progression_rules ELSE <<>>,
         non_gym_guidance |-> defaults.non_gym_guidance,
         fat_loss_non_negotiables |-> defaults.fat_loss_non_negotiables,
         schedule_example |-> [n \in 1..Len(program_days) |->
                                  <<"Day ", program_days[n].key, ": training">>],
         session_cap_minutes |-> Absent]

SharedNoDeepcopy == {"supersets", "core"}

\* the fields of a selected template a program day shares with it (the same
\* object, so that a write through the program shows in the catalog):
\* "supersets" and "core" are deepcopy()s and the day dict is a new literal
SharedWithTemplate == {}

\* the catalog as the writes to the program tree leave it: the template a
\* program day was made from (the last selected one with its key) shows the
\* shared fields of that day
TemplatesAfter(tcfg, ndays, prog) ==
    LET selected == PySlicePrefix(tcfg.days, ndays)
        made(n) == /\ n <= Len(selected)
                   /\ \A m \in (n + 1)..Len(selected) : selected[m].key # selected[n].key
        pday(n) == prog.days[CHOOSE i \in 1..Len(prog.days) :
                                 prog.days[i].key = tcfg.days[n].key]
    IN  [tcfg EXCEPT !.days = [n \in 1..Len(tcfg.days) |->
            IF made(n)
            THEN [f \in DOMAIN tcfg.days[n] |->
                     IF f \in SharedWithTemplate THEN pday(n)[f] ELSE tcfg.days[n][f]]
            ELSE tcfg.days[n]]]

(***************************************************************************)
(* time_cap.py: enforce_session_duration_cap                               *)
(***************************************************************************)
EnforcerCapNoFallback(prog) ==
    IF "session_length_minutes" \in DOMAIN prog.profile
    THEN prog.profile.session_length_minutes ELSE 40

\* cap = int(program.get("profile", {}).get("session_length_minutes", 40)),
\* replaced by 40 when <= 0
EnforcerCap(prog) ==
    LET c == IF "session_length_minutes" \in DOMAIN prog.profile
             THEN prog.profile.session_length_minutes ELSE 40
    IN  IF c <= 0 THEN 40 ELSE c

FirstReducibleAboveOne(exs) ==
    LET S == {j \in 1..Len(exs) : parse_set_count(exs[j].sets_reps, 3) > 1}
    IN  IF S = {} THEN 0 ELSE CHOOSE j \in S : \A k \in S : j <= k

\* the first exercise of a superset with more than 2 sets, 0 if none
FirstReducible(exs) ==
    LET S == {j \in 1..Len(exs) : parse_set_count(exs[j].sets_reps, 3) > 2}
    IN  IF S = {} THEN 0 ELSE CHOOSE j \in S : \A k \in S : j <= k

TargetFirstSuperset(day) ==
    LET S == {i \in 1..Len(day.supersets) : FirstReducible(day.supersets[i].exercises) > 0}
    IN  IF S = {} THEN 0 ELSE CHOOSE i \in S : \A k \in S : i <= k

\* the superset the scan of reversed(day["supersets"]) stops in, 0 if none
TargetSuperset(day) ==
    LET S == {i \in 1..Len(day.supersets) : FirstReducible(day.supersets[i].exercises) > 0}
    IN  IF S = {} THEN 0 ELSE CHOOSE i \in S : \A k \in S : k <= i

ReduceSuperset(day) ==
    LET i == TargetSuperset(day)
        j == FirstReducible(day.supersets[i].exercises)
        old == day.supersets[i].exercises[j].sets_reps
    IN  [day EXCEPT !.supersets[i].exercises[j].sets_reps =
            replace_set_count(old, parse_set_count(old, 3) - 1)]

CoreReducibleAboveTwo(day) == parse_set_count(day.core.sets_reps, 2) > 2

CoreReducibleToZero(day) == parse_set_count(day.core.sets_reps, 2) > 0

\* core_sets > 1
CoreReducible(day) == parse_set_count(day.core.sets_reps, 2) > 1

ReduceCore(day) ==
    [day EXCEPT !.core.sets_reps =
        replace_set_count(day.core.sets_reps, parse_set_count(day.core.sets_reps, 2) - 1)]

SkipFinisherText(c) == <<"Skip finisher when session time is capped at ", c, " minutes.">>

AnnotateNothing(day) == day

Annotate(day) ==
    [day EXCEPT !.estimated_duration_min = Present(estimate_day_duration_minutes(day))]

RECURSIVE SumSets(_)
SumSets(exs) ==
    IF exs = <<>> THEN 0 ELSE parse_set_count(exs[1].sets_reps, 3) + SumSets(Tail(exs))

\* total set count of a day: its superset exercises and its core
TotalSets(day) == SumSets(Flatten(day.supersets)) + parse_set_count(day.core.sets_reps, 2)

StartSets(prog, i) == IF i <= Len(prog.days) THEN TotalSets(prog.days[i]) ELSE 0

(***************************************************************************)
(* Inputs.                                                                 *)
(***************************************************************************)
\* ex() of generate_program.py: a template exercise
Exercise(name, key) ==
    [name |-> name, sets_reps |-> Str_3x8_12, note |-> "note", canonical_key |-> key,
     alternatives |-> "alternatives"]

Pair(a, b) == [exercises |-> <<a, b>>]

DayTemplate(key, title, supersets, core) ==
    [key |-> key, title |-> title, warmup |-> "5 min easy cardio",
     main_work |-> "Superset style", supersets |-> supersets, core |-> core,
     finisher |-> <<"Optional 6-8 min intervals">>]

DayA ==
    DayTemplate("A", "Day A",
        <<Pair(Exercise(Name_Squat, "squat"), Exercise(Name_Row, "row")),
          Pair(Exercise(Name_Overhead_Press, "overhead_press"),
               Exercise(Name_Deadlift, "deadlift"))>>,
        Exercise(Name_Plank, "plank"))

DayA2 == [DayA EXCEPT !.title = "Day A (alternative)"]

DayB ==
    DayTemplate("B", "Day B",
        <<Pair(Exercise(Name_Lunge, "lunge"), Exercise(Name_Bench_Press, "bench_press")),
          Pair(Exercise(Name_Lat_Pulldown, "lat_pulldown"),
               Exercise(Name_Hip_Thrust, "hip_thrust"))>>,
        Exercise(Name_Dead_Bug, "dead_bug"))

DayC ==
    DayTemplate("C", "Day C",
        <<[exercises |-> <<Exercise(Name_Leg_Press, "leg_press")>>],
          [exercises |-> <<Exercise(Name_Push_Up, "push_up")>>],
          [exercises |-> <<Exercise(Name_Pull_Up, "pull_up")>>]>>,
        Exercise(Name_Plank, "plank"))

DayThin ==
    DayTemplate("T", "Day T",
        <<Pair(Exercise(Name_Squat, "squat"), Exercise(Name_Row, "row"))>>,
        Exercise(Name_Plank, "plank"))

\* day_templates() of generate_program.py: the built-in catalog, days A to E
day_templates ==
    <<DayTemplate("A", "Day A - lower + pull focus",
        <<Pair(Exercise(Name_Leg_Press, "leg_press"),
               Exercise(Name_Chest_Supported_Row, "chest_supported_row")),
          Pair(Exercise(Name_Flat_Dumbbell_Bench_Press, "flat_db_bench_press"),
               Exercise(Name_Romanian_Deadlift, "romanian_deadlift"))>>,
        Exercise(Name_Cable_Pallof_Press, "cable_pallof_press")),
      DayTemplate("B", "Day B - upper + glute focus",
        <<Pair(Exercise(Name_Goblet_Squat, "goblet_squat"),
               Exercise(Name_Seated_Cable_Row, "seated_cable_row")),
          Pair(Exercise(Name_Incline_Dumbbell_Bench_Press, "incline_db_bench_press"),
               Exercise(Name_Dumbbell_Hip_Thrust, "dumbbell_hip_thrust"))>>,
        Exercise(Name_Dead_Bug, "dead_bug")),
      DayTemplate("C", "Day C - balanced full-body",
        <<Pair(Exercise(Name_Dumbbell_Split_Squat, "dumbbell_split_squat"),
               Exercise(Name_Lat_Pulldown, "lat_pulldown")),
          Pair(Exercise(Name_Machine_Chest_Press, "machine_chest_press"),
               Exercise(Name_Cable_Pull_Through, "cable_pull_through"))>>,
        Exercise(Name_Front_Plank, "front_plank")),
      DayTemplate("D", "Day D - overhead + single-leg",
        <<Pair(Exercise(Name_Overhead_Dumbbell_Press, "overhead_db_press"),
               Exercise(Name_One_Arm_Cable_Row, "one_arm_cable_row")),
          Pair(Exercise(Name_Bulgarian_Split_Squat, "bulgarian_split_squat"),
               Exercise(Name_Hamstring_Curl_Machine, "hamstring_curl_machine"))>>,
        Exercise(Name_Side_Plank, "side_plank")),
      DayTemplate("E", "Day E - posterior chain + pull",
        <<Pair(Exercise(Name_Trap_Bar_Deadlift, "trap_bar_deadlift"),
               Exercise(Name_Incline_Push_up, "incline_push_up")),
          Pair(Exercise(Name_Walking_Lunge, "walking_lunge"),
               Exercise(Name_Assisted_Pull_up, "assisted_pull_up"))>>,
        Exercise(Name_Bird_Dog, "bird_dog"))>>

\* a day in which no exercise name holds a knee-dominant keyword, while the names
\* "Bridge Single Leg" and "Press Up" follow each other
DaySpan ==
    DayTemplate("S", "Day S",
        <<[exercises |-> <<Exercise(Name_Overhead_Press, "overhead_press"),
                           Exercise(Name_Row, "row"),
                           Exercise(Name_Deadlift, "deadlift")>>],
          Pair(Exercise(Name_Bridge_Single_Leg, "bridge_single_leg"),
               Exercise(Name_Press_Up, "press_up"))>>,
        Exercise(Name_Plank, "plank"))

\* a day whose core exercise lacks "note" and "alternatives"
DayBadCore ==
    [DayB EXCEPT !.core =
        [name |-> Name_Dead_Bug, sets_reps |-> Str_3x8_12, canonical_key |-> "dead_bug"]]

Defaults ==
    [weekly_structure |-> "weekly structure", substitution_map |-> "substitution map",
     superset_rules |-> "superset rules", non_gym_guidance |-> "non-gym guidance",
     fat_loss_non_negotiables |-> "fat-loss non-negotiables"]

Catalog(ds) == [days |-> ds, defaults |-> Defaults]

Catalogs ==
    {Catalog(<<DayA, DayB, DayC>>), Catalog(<<DayA, DayA2>>), Catalog(<<DayA, DayThin>>),
     Catalog(<<DayB>>), Catalog(<<>>), Catalog(<<DayA, DayBadCore>>), Catalog(<<DaySpan>>),
     Catalog(day_templates),
     [days |-> <<DayA>>], [defaults |-> Defaults]}

GoalProfile(fp, sp, cs, fin) ==
    [first_pair |-> fp, second_pair |-> sp, core_scheme |-> cs, finisher |-> fin]

ProgStandard ==
    [goal_profiles |->
        (Str_fat_loss :> GoalProfile(Str_3x8_12, Str_3x10_15, Str_2x10_12,
                                     <<"Optional 8-12 min zone-2">>)
         @@ Str_general_fitness :> GoalProfile(Str_4x6_8, Str_4x8_10, Str_3x12,
                                               <<"Optional 6-10 min easy conditioning">>)),
     goal_aliases |-> (Str_cut :> Str_fat_loss),
     default_goal |-> Str_general_fitness,
     progression_rules |-> <<"Hit the top of the rep range before adding weight.">>]

ProgMalformed ==
    [goal_profiles |->
        (Str_general_fitness :> GoalProfile(Str_heavy, Str_3x, Str_04x6, <<"Optional">>))]

ProgStrength ==
    [goal_profiles |-> (Str_strength :> GoalProfile(Str_5X5, Str_1x20, Str_0x5, <<>>)),
     goal_aliases |-> (Str_cut :> Str_fat_loss)]

ProgEmpty == [goal_profiles |-> <<>>, default_goal |-> Str_general_fitness]

ProgNoProfiles == [default_goal |-> Str_general_fitness]

Progressions == {ProgStandard, ProgMalformed, ProgStrength, ProgEmpty, ProgNoProfiles}

Goals == {Str_fat_loss, Str_Fat_Loss_bang, Str_Fat_dash_Loss, Str_cut, Str_strength}

SessionLengths == {0, 19, 25, 26, 40}

Profiles ==
    {[user_id |-> "tester", session_length_minutes |-> m] : m \in SessionLengths}
    \cup {[user_id |-> "tester"]}

\* _program() of tests/test_time_cap.py, with the set counts, finisher and cap varied
TestProgram(m, a, b, c, fin) ==
    [profile |-> [session_length_minutes |-> m],
     days |-> <<[key |-> "A", title |-> "Day A",
                 supersets |-> <<[exercises |-> <<[sets_reps |-> a], [sets_reps |-> a]>>],
                                 [exercises |-> <<[sets_reps |-> b], [sets_reps |-> b]>>]>>,
                 core |-> [sets_reps |-> c],
                 finisher |-> fin,
                 estimated_duration_min |-> Absent]>>,
     session_cap_minutes |-> Absent]

TestPrograms ==
    {TestProgram(m, s[1], s[2], s[3], fin) :
        m \in {-5, 19, 25, 26, 40},
        s \in {<<Str_4x6_8, Str_4x8_10, Str_3x12>>, <<Str_5X5, Str_04x6, Str_1x20>>,
               <<Str_3x8_12, Str_heavy, Str_2x10_12>>, <<Str_0x5, Str_0x5, Str_0x5>>,
               <<Str_3x8_12, Str_3x8_12, Str_0x5>>},
        fin \in {<<"Optional">>, <<>>}}

\* a program day given to validate_program_constraints on its own: the
\* exercises of DayA, every superset exercise with the given scheme, and an
\* annotation that is absent, or the enforcer's, or older than the sets
ValidatedDay(key, scheme, annotation) ==
    [GoalDay(ProgramDay(DayA), GoalProfile(scheme, scheme, Str_3x12, <<"Optional">>))
        EXCEPT !.key = key, !.title = "Day " \o key, !.estimated_duration_min = annotation]

Annotations == {Absent, Present(30), Present(45)}

ValidatedPrograms ==
    {[profile |-> prof,
      days |-> <<ValidatedDay("A", s1, a1), ValidatedDay("B", s2, a2)>>,
      session_cap_minutes |-> c] :
        prof \in {[user_id |-> "tester"], [user_id |-> "tester", session_length_minutes |-> 41]},
        s1 \in {Str_2x10_12, Str_4x6_8}, s2 \in {Str_2x10_12, Str_4x6_8},
        a1 \in Annotations, a2 \in Annotations,
        c \in {Absent, Present(0), Present(40)}}

(***************************************************************************)
(* The state machine: build_program called twice with the same inputs, or  *)
(* enforce_session_duration_cap or validate_program_constraints called on  *)
(* its own.                                                                *)
(***************************************************************************)
NoInput == <<>>

\* no file of the workflow exists
NoFiles == [profile |-> Absent, draft |-> Absent, final |-> Absent, manifest |-> Absent,
            pdf |-> Absent]

NoCommand == [cmd |-> "none", ok |-> TRUE]

\* no program exists yet
NoProgram == [days |-> <<>>]

InitBuild ==
    /\ entry = "build"
    /\ templates_cfg \in Catalogs
    /\ progression_cfg \in Progressions
    /\ profile \in Profiles
    /\ days \in 0..MaxDays
    /\ goal \in Goals
    /\ program = NoProgram
    /\ pc = "start"

InitEnforce ==
    /\ entry = "enforce"
    /\ templates_cfg = NoInput
    /\ progression_cfg = NoInput
    /\ profile = NoInput
    /\ days = 0
    /\ goal = <<>>
    /\ program \in TestPrograms
    /\ pc = "enforce_call"

InitValidate ==
    /\ entry = "validate"
    /\ templates_cfg = NoInput
    /\ progression_cfg = NoInput
    /\ profile = NoInput
    /\ days = 0
    /\ goal = <<>>
    /\ program \in ValidatedPrograms
    /\ pc = "enforced"

Init ==
    /\ InitBuild \/ InitEnforce \/ InitValidate
    /\ cap = 0
    /\ di = 0
    /\ iters = 0
    /\ start_sets = 0
    /\ error = NoError
    /\ run = 1
    /\ first = <<>>
    /\ files = NoFiles
    /\ result = NoCommand
    /\ done = {}

inputs == <<entry, templates_cfg, progression_cfg, profile, days, goal>>

\* the catalog after a write of the enforcer to the program tree
CatalogAfterWrite(prog) ==
    IF entry = "build" THEN TemplatesAfter(templates_cfg, days, prog) ELSE templates_cfg

locals == <<cap, di, iters, start_sets>>

ConfigError ==
    IF validate_templates_config(templates_cfg) # NoError
    THEN validate_templates_config(templates_cfg)
    ELSE validate_progression_config(progression_cfg)

\* build_program: a configuration is rejected
BuildConfigError ==
    /\ pc = "start"
    /\ ConfigError # NoError
    /\ error' = ConfigError
    /\ pc' = "raised"
    /\ UNCHANGED <<inputs, program, locals, run, cli, first>>

AssembleDestructive ==
    /\ pc = "start"
    /\ ConfigError = NoError
    /\ program' = Assemble(templates_cfg, progression_cfg, profile, days, goal)
    /\ templates_cfg' = [templates_cfg EXCEPT !.days =
            SubSeq(@, Len(PySlicePrefix(@, days)) + 1, Len(@))]
    /\ pc' = "assembled"
    /\ UNCHANGED <<entry, progression_cfg, profile, days, goal>>
    /\ UNCHANGED <<locals, error, run, cli, first>>

\* build_program: the days are selected and copied, the program dict is made
BuildAssemble ==
    /\ pc = "start"
    /\ ConfigError = NoError
    /\ program' = Assemble(templates_cfg, progression_cfg, profile, days, goal)
    /\ pc' = "assembled"
    /\ UNCHANGED <<inputs, locals, error, run, cli, first>>

\* apply_goal_rules: progression_cfg["goal_profiles"][resolved] raises KeyError
ApplyGoalKeyError ==
    /\ pc = "assembled"
    /\ resolve_goal_key(goal, progression_cfg) \notin DOMAIN progression_cfg.goal_profiles
    /\ error' = KeyError(resolve_goal_key(goal, progression_cfg))
    /\ pc' = "raised"
    /\ UNCHANGED <<inputs, program, locals, run, cli, first>>

ApplyGoalRules ==
    /\ pc = "assembled"
    /\ resolve_goal_key(goal, progression_cfg) \in DOMAIN progression_cfg.goal_profiles
    /\ program' = apply_goal_rules(program, progression_cfg, goal)
    /\ templates_cfg' = TemplatesAfter(templates_cfg, days, program')
    /\ pc' = "goal_applied"
    /\ UNCHANGED <<entry, progression_cfg, profile, days, goal>>
    /\ UNCHANGED <<locals, error, run, cli, first>>

\* enforce_session_duration_cap is entered: cap is computed, the first day begins
EnforceBegin ==
    /\ pc \in {"goal_applied", "enforce_call"}
    /\ cap' = EnforcerCap(program)
    /\ di' = 1
    /\ iters' = 0
    /\ start_sets' = StartSets(program, 1)
    /\ pc' = "enforce_loop"
    /\ UNCHANGED <<inputs, program, error, run, cli, first>>

Day == program.days[di]

InLoopBody ==
    /\ pc = "enforce_loop"
    /\ di <= Len(program.days)
    /\ estimate_day_duration_minutes(Day) > cap

Count(n) == IF n < MaxIters THEN n + 1 ELSE MaxIters

\* one execution of the while body that lowers a superset exercise
EnforceReduceSuperset ==
    /\ InLoopBody
    /\ TargetSuperset(Day) > 0
    /\ program' = [program EXCEPT !.days[di] = ReduceSuperset(Day)]
    /\ templates_cfg' = CatalogAfterWrite(program')
    /\ iters' = Count(iters)
    /\ UNCHANGED <<entry, progression_cfg, profile, days, goal>>
    /\ UNCHANGED <<pc, cap, di, start_sets, error, run, cli, first>>

\* one execution of the while body that lowers the core
EnforceReduceCore ==
    /\ InLoopBody
    /\ TargetSuperset(Day) = 0
    /\ CoreReducible(Day)
    /\ program' = [program EXCEPT !.days[di] = ReduceCore(Day)]
    /\ templates_cfg' = CatalogAfterWrite(program')
    /\ iters' = Count(iters)
    /\ UNCHANGED <<entry, progression_cfg, profile, days, goal>>
    /\ UNCHANGED <<pc, cap, di, start_sets, error, run, cli, first>>

SkipFinisherEarly ==
    /\ InLoopBody
    /\ Day.finisher # <<>>
    /\ program' = [program EXCEPT !.days[di].finisher = SkipFinisherText(cap)]
    /\ iters' = Count(iters)
    /\ pc' = "enforce_break"
    /\ UNCHANGED <<inputs, cap, di, start_sets, error, run, cli, first>>

\* the execution of the while body that replaces the finisher and breaks
EnforceSkipFinisher ==
    /\ InLoopBody
    /\ TargetSuperset(Day) = 0
    /\ ~CoreReducible(Day)
    /\ Day.finisher # <<>>
    /\ program' = [program EXCEPT !.days[di].finisher = SkipFinisherText(cap)]
    /\ iters' = Count(iters)
    /\ pc' = "enforce_break"
    /\ UNCHANGED <<inputs, cap, di, start_sets, error, run, cli, first>>

\* the execution of the while body that raises
EnforceRaise ==
    /\ InLoopBody
    /\ TargetSuperset(Day) = 0
    /\ ~CoreReducible(Day)
    /\ Day.finisher = <<>>
    /\ error' = ValueError(<<"Could not fit session within ", cap, " minutes: ", Day.title>>)
    /\ iters' = Count(iters)
    /\ pc' = "raised"
    /\ UNCHANGED <<inputs, program, cap, di, start_sets, run, cli, first>>

\* the while loop of a day is left: the day is annotated and the next day begins
EnforceAnnotate ==
    /\ \/ pc = "enforce_break"
       \/ /\ pc = "enforce_loop"
          /\ di <= Len(program.days)
          /\ estimate_day_duration_minutes(Day) <= cap
    /\ program' = [program EXCEPT !.days[di] = Annotate(Day)]
    /\ di' = di + 1
    /\ iters' = 0
    /\ start_sets' = StartSets(program, di + 1)
    /\ pc' = "enforce_loop"
    /\ UNCHANGED <<inputs, cap, error, run, cli, first>>

\* the for loop is over: program["session_cap_minutes"] = cap
EnforceReturn ==
    /\ pc = "enforce_loop"
    /\ di > Len(program.days)
    /\ program' = [program EXCEPT !.session_cap_minutes = Present(cap)]
    /\ pc' = IF entry = "build" THEN "enforced" ELSE "returned"
    /\ UNCHANGED <<inputs, locals, error, run, cli, first>>

\* build_program: validate_program_constraints raises
BuildValidateRaise ==
    /\ pc = "enforced"
    /\ validate_program_constraints(program) # NoError
    /\ error' = validate_program_constraints(program)
    /\ pc' = "raised"
    /\ UNCHANGED <<inputs, program, locals, run, cli, first>>

ReturnUnvalidated ==
    /\ pc = "enforced"
    /\ pc' = "returned"
    /\ UNCHANGED <<inputs, program, locals, error, run, cli, first>>

\* build_program: validate_program_constraints passes, the program is returned
BuildReturn ==
    /\ pc = "enforced"
    /\ validate_program_constraints(program) = NoError
    /\ pc' = "returned"
    /\ UNCHANGED <<inputs, program, locals, error, run, cli, first>>

Outcome ==
    [pc |-> pc, program |-> IF pc = "returned" THEN <<program>> ELSE <<>>, error |-> error]

\* the caller calls build_program again with the same arguments
Rebuild ==
    /\ entry = "build"
    /\ run = 1
    /\ pc \in {"returned", "raised"}
    /\ first' = <<Outcome>>
    /\ run' = 2
    /\ program' = NoProgram
    /\ pc' = "start"
    /\ error' = NoError
    /\ cap' = 0
    /\ di' = 0
    /\ iters' = 0
    /\ start_sets' = 0
    /\ UNCHANGED <<inputs, cli>>

Next ==
    \/ BuildConfigError
    \/ BuildAssemble
    \/ ApplyGoalKeyError
    \/ ApplyGoalRules
    \/ EnforceBegin
    \/ EnforceReduceSuperset
    \/ EnforceReduceCore
    \/ EnforceSkipFinisher
    \/ EnforceRaise
    \/ EnforceAnnotate
    \/ EnforceReturn
    \/ BuildValidateRaise
    \/ BuildReturn
    \/ Rebuild

Spec == Init /\ [][Next]_vars

(***************************************************************************)
(* The estimator on its own: a day is drawn, then set counts are lowered   *)
(* one exercise at a time (replace_set_count writes the count, the         *)
(* estimator parses it back).  `first` holds the day before the last step. *)
(***************************************************************************)
SetsStr(n) == IntToStr(n) \o <<" ", "x", " ", "8">>

EstStrings == {SetsStr(n) : n \in 0..MaxSets} \cup {Str_heavy}

EstDays ==
    {[key |-> "A", title |-> "Day A",
      supersets |-> <<[exercises |-> <<[sets_reps |-> a], [sets_reps |-> b]>>],
                      [exercises |-> <<[sets_reps |-> c]>>]>>,
      core |-> [sets_reps |-> k],
      finisher |-> <<"Optional">>,
      estimated_duration_min |-> Absent] : a, b, c, k \in EstStrings}

InitEst ==
    /\ entry = "estimate"
    /\ templates_cfg = NoInput
    /\ progression_cfg = NoInput
    /\ profile = NoInput
    /\ days = 0
    /\ goal = <<>>
    /\ \E d \in EstDays : program = [days |-> <<d>>]
    /\ pc = "estimate"
    /\ cap = 0
    /\ di = 1
    /\ iters = 0
    /\ start_sets = 0
    /\ error = NoError
    /\ run = 1
    /\ first = <<>>
    /\ files = NoFiles
    /\ result = NoCommand
    /\ done = {}

\* a superset exercise gets a smaller set count
LowerExercise ==
    \E i \in 1..Len(Day.supersets) : \E j \in 1..Len(Day.supersets[i].exercises) :
        \E m \in 0..MaxSets :
            LET old == Day.supersets[i].exercises[j].sets_reps
            IN  /\ m < parse_set_count(old, 3)
                /\ program' = [program EXCEPT
                       !.days[di].supersets[i].exercises[j].sets_reps =
                           replace_set_count(old, m)]
                /\ first' = <<Day>>
                /\ UNCHANGED <<inputs, pc, locals, error, run, cli>>

\* the core gets a smaller set count
LowerCore ==
    \E m \in 0..MaxSets :
        /\ m < parse_set_count(Day.core.sets_reps, 2)
        /\ program' = [program EXCEPT
               !.days[di].core.sets_reps = replace_set_count(Day.core.sets_reps, m)]
        /\ first' = <<Day>>
        /\ UNCHANGED <<inputs, pc, locals, error, run, cli>>

NextEst == LowerExercise \/ LowerCore

SpecEst == InitEst /\ [][NextEst]_vars

(***************************************************************************)
(* parse_set_count and replace_set_count on their own: a string and a new   *)
(* set count are drawn, replace_set_count rewrites the string (`first`),    *)
(* parse_set_count reads the result back with a default (`di`) into `cap`.  *)
(***************************************************************************)
SetsAlphabet == {"0", "3", " ", "x", "X"}

SetsStrings == UNION {[1..n -> SetsAlphabet] : n \in 0..MaxLen}

InitSets ==
    /\ entry = "sets"
    /\ templates_cfg = NoInput
    /\ progression_cfg = NoInput
    /\ profile = NoInput
    /\ days \in 0..MaxSets
    /\ goal \in SetsStrings
    /\ program = NoProgram
    /\ pc = "call"
    /\ cap = 0
    /\ di = 0
    /\ iters = 0
    /\ start_sets = 0
    /\ error = NoError
    /\ run = 1
    /\ first = <<>>
    /\ files = NoFiles
    /\ result = NoCommand
    /\ done = {}

\* replace_set_count(goal, days)
ReplaceSetCount ==
    /\ pc = "call"
    /\ first' = <<replace_set_count(goal, days)>>
    /\ pc' = "replaced"
    /\ UNCHANGED <<inputs, program, locals, error, run, cli>>

\* parse_set_count(<the rewritten string>, default) with default 3 or 2
ParseSetCount ==
    /\ pc = "replaced"
    /\ \E default \in {2, 3} :
          /\ cap' = parse_set_count(first[1], default)
          /\ di' = default
    /\ pc' = "parsed"
    /\ UNCHANGED <<inputs, program, iters, start_sets, error, run, cli, first>>

NextSets == ReplaceSetCount \/ ParseSetCount

SpecSets == InitSets /\ [][NextSets]_vars

(***************************************************************************)
(* program_io.py: slugify; profile_service.py: default_profile and         *)
(* validate_profile, called on its own.                                    *)
(***************************************************************************)
\* the characters [a-z0-9]
SlugChars == {LowerChars[i] : i \in 1..26} \cup {DigitChars[i] : i \in 1..10}

RECURSIVE DropNonSlug(_)
DropNonSlug(s) ==
    IF s = <<>> \/ Head(s) \in SlugChars THEN s ELSE DropNonSlug(Tail(s))

\* re.sub(r"[^a-z0-9]+", "_", text)
RECURSIVE SubNonSlug(_)
SubNonSlug(s) ==
    IF s = <<>> THEN <<>>
    ELSE IF Head(s) \in SlugChars THEN <<Head(s)>> \o SubNonSlug(Tail(s))
    ELSE <<"_">> \o SubNonSlug(DropNonSlug(s))

RECURSIVE StripUnderscores(_)
StripUnderscores(s) ==
    IF s = <<>> THEN s
    ELSE IF Head(s) = "_" THEN StripUnderscores(Tail(s))
    ELSE IF s[Len(s)] = "_" THEN StripUnderscores(SubSeq(s, 1, Len(s) - 1))
    ELSE s

\* slugify of an ASCII string (ascii_clean leaves ASCII text as it is)
slugify(value) ==
    LET text == StripUnderscores(SubNonSlug(Lower(value)))
    IN  IF text = <<>> THEN Str_item ELSE text

REQUIRED_PROFILE_FIELDS ==
    <<"user_id", "name", "age", "height_cm", "weight_kg", "goal", "gym_days",
      "session_length_minutes", "equipment">>

default_profile(user) ==
    [user_id |-> slugify(user), name |-> user, sex |-> "Prefer not to say", age |-> 30,
     height_cm |-> 175, weight_kg |-> 75, goal |-> Str_general_fitness, gym_days |-> 3,
     session_length_minutes |-> 40, experience_level |-> "beginner-intermediate",
     equipment |-> "full_gym", notes |-> ""]

ValidateProfileNoSessionCheck(p) ==
    IF MissingFields(p, REQUIRED_PROFILE_FIELDS) # <<>>
    THEN ValueError(<<"Profile missing fields: ", MissingFields(p, REQUIRED_PROFILE_FIELDS)>>)
    ELSE IF p.gym_days < 2 \/ p.gym_days > 5
    THEN ValueError(<<"gym_days must be between 2 and 5">>)
    ELSE NoError

\* the exception validate_profile raises, or NoError (gym_days and
\* session_length_minutes are integers in the inputs, so int() leaves them)
validate_profile(p) ==
    IF MissingFields(p, REQUIRED_PROFILE_FIELDS) # <<>>
    THEN ValueError(<<"Profile missing fields: ", MissingFields(p, REQUIRED_PROFILE_FIELDS)>>)
    ELSE IF p.gym_days < 2 \/ p.gym_days > 5
    THEN ValueError(<<"gym_days must be between 2 and 5">>)
    ELSE IF p.session_length_minutes <= 0
    THEN ValueError(<<"session_length_minutes must be > 0">>)
    ELSE NoError

Users == {Str_alice, Str_Bob_Smith, Str_dashes}

\* the sets of fields taken out of a profile: any one required field, and any
\* of goal, gym_days, session_length_minutes together; "notes" is not required
Removals ==
    {{REQUIRED_PROFILE_FIELDS[i]} : i \in 1..Len(REQUIRED_PROFILE_FIELDS)}
    \cup SUBSET {"goal", "gym_days", "session_length_minutes"}
    \cup {{"notes"}}

Without(p, fields) == [f \in DOMAIN p \ fields |-> p[f]]

ProfileInputs ==
    {Without([default_profile(Str_alice) EXCEPT !.gym_days = g,
                                               !.session_length_minutes = m], r) :
        g \in 0..MaxGymDays, m \in {-5, 0, 1, 40}, r \in Removals}
    \cup {default_profile(u) : u \in Users}

InitProfile ==
    /\ entry = "profile"
    /\ templates_cfg = NoInput
    /\ progression_cfg = NoInput
    /\ profile \in ProfileInputs
    /\ days = 0
    /\ goal = <<>>
    /\ program = NoProgram
    /\ pc = "validate_profile"
    /\ cap = 0
    /\ di = 0
    /\ iters = 0
    /\ start_sets = 0
    /\ error = NoError
    /\ run = 1
    /\ first = <<>>
    /\ files = NoFiles
    /\ result = NoCommand
    /\ done = {}

\* validate_profile raises
ValidateProfileRaise ==
    /\ pc = "validate_profile"
    /\ validate_profile(profile) # NoError
    /\ error' = validate_profile(profile)
    /\ pc' = "raised"
    /\ UNCHANGED <<inputs, program, locals, run, cli, first>>

\* validate_profile returns
ValidateProfileReturn ==
    /\ pc = "validate_profile"
    /\ validate_profile(profile) = NoError
    /\ pc' = "returned"
    /\ UNCHANGED <<inputs, program, locals, error, run, cli, first>>

NextProfile == ValidateProfileRaise \/ ValidateProfileReturn

SpecProfile == InitProfile /\ [][NextProfile]_vars

(***************************************************************************)
(* generate_program.py: the command-line workflow of one user.  A handler   *)
(* is an operator from the files to the files it leaves, the exception it   *)
(* raises (NoError if none) and the handlers that completed in it.          *)
(***************************************************************************)
FileNotFoundError(msg) == [kind |-> "FileNotFoundError", msg |-> msg]

FileExistsError(msg) == [kind |-> "FileExistsError", msg |-> msg]

Completed(fs, handler) == [files |-> fs, error |-> NoError, ran |-> {handler}]

Failed(fs, err) == [files |-> fs, error |-> err, ran |-> {}]

\* the handler `next` called after the outcome r of the handlers before it
Then(r, next(_)) ==
    IF r.error # NoError THEN r
    ELSE LET n == next(r.files)
         IN  [files |-> n.files, error |-> n.error, ran |-> r.ran \cup n.ran]

\* validate_profile of generate_program.py
cli_validate_profile(p) ==
    IF MissingFields(p, REQUIRED_PROFILE_FIELDS) # <<>>
    THEN ValueError(<<"Profile missing fields: ", MissingFields(p, REQUIRED_PROFILE_FIELDS)>>)
    ELSE IF p.gym_days < 2 \/ p.gym_days > 5
    THEN ValueError(<<"gym_days must be between 2 and 5">>)
    ELSE NoError

\* the schemes apply_goal_rules of generate_program.py picks for a goal
cli_goal_profile(g) ==
    LET goal_key == slugify(g)
    IN  IF goal_key = Str_fat_loss
        THEN GoalProfile(Str_3x8_12, Str_3x10_15, Str_core_2x10,
                         <<"Optional 8-12 min zone-2 or intervals">>)
        ELSE IF goal_key = Str_muscle_gain
        THEN GoalProfile(Str_4x6_10, Str_3x8_12, Str_core_3x10,
                         <<"Optional 6-8 min easy cardio">>)
        ELSE IF goal_key = Str_general_fitness
        THEN GoalProfile(Str_3x6_10, Str_3x8_12, Str_core_2x10,
                         <<"Optional 6-10 min easy conditioning">>)
        ELSE GoalProfile(Str_4x4_6, Str_3x6_8, Str_core_2x30,
                         <<"Optional 6-10 min easy conditioning">>)

\* apply_goal_rules of generate_program.py
cli_apply_goal_rules(prog, g) ==
    [prog EXCEPT !.days = [i \in 1..Len(prog.days) |->
                              GoalDay(prog.days[i], cli_goal_profile(g))]]

\* validate_program_constraints of generate_program.py
cli_validate_program_constraints(prog) ==
    IF CountOutOfRange(prog)
    THEN ValueError(<<"Each day must have 4-6 exercises including core.">>)
    ELSE IF MissingMovements(prog) # <<>>
    THEN ValueError(<<"Program missing movement patterns: ", MissingMovements(prog)>>)
    ELSE NoError

\* the program build_program of generate_program.py makes before it validates
\* it (the fixed guidance lists are named, not spelled out)
cli_build_program(prof, ndays, g) ==
    LET program_days == ProgramDays(PySlicePrefix(day_templates, ndays))
    IN  cli_apply_goal_rules(
            [profile |-> prof,
             goal |-> g,
             weekly_structure |-> "weekly structure",
             days |-> program_days,
             substitution_map |-> "substitution map",
             superset_rules |-> "superset rules",
             progression_rules |-> "progression rules",
             non_gym_guidance |-> "non-gym guidance",
             fat_loss_non_negotiables |-> "fat-loss non-negotiables",
             schedule_example |-> [n \in 1..Len(program_days) |->
                                      <<"Day ", program_days[n].key, ": training">>]],
            g)

\* the one user of the workflow
User == Str_alice

\* cmd_profile_create with --gym-days and --force
cmd_profile_create(fs, gym_days, force) ==
    LET made == IF gym_days = Absent THEN default_profile(User)
                ELSE [default_profile(User) EXCEPT !.gym_days = gym_days[1]]
    IN  IF fs.profile # Absent /\ ~force
        THEN Failed(fs, FileExistsError(<<"Profile already exists">>))
        ELSE IF cli_validate_profile(made) # NoError
        THEN Failed(fs, cli_validate_profile(made))
        ELSE Completed([fs EXCEPT !.profile = Present(made)], "profile-create")

cmd_profile_show(fs) ==
    IF fs.profile = Absent
    THEN Failed(fs, FileNotFoundError(<<"Profile not found">>))
    ELSE Completed(fs, "profile-show")

\* cmd_profile_update with --set gym_days=<value>
cmd_profile_update(fs, value) ==
    IF fs.profile = Absent
    THEN Failed(fs, FileNotFoundError(<<"Profile not found">>))
    ELSE LET updated == [fs.profile[1] EXCEPT !.gym_days = value]
         IN  IF cli_validate_profile(updated) # NoError
             THEN Failed(fs, cli_validate_profile(updated))
             ELSE Completed([fs EXCEPT !.profile = Present(updated)], "profile-update")

cmd_generate_draft(fs, days_arg, goal_arg) ==
    IF fs.profile = Absent
    THEN Failed(fs, FileNotFoundError(<<"Profile not found">>))
    ELSE IF cli_validate_profile(fs.profile[1]) # NoError
    THEN Failed(fs, cli_validate_profile(fs.profile[1]))
    ELSE LET ndays == IF days_arg # Absent THEN days_arg[1] ELSE fs.profile[1].gym_days
             g == IF goal_arg # Absent THEN goal_arg[1] ELSE fs.profile[1].goal
             built == cli_build_program(fs.profile[1], ndays, g)
             invalid == cli_validate_program_constraints(built)
         IN  IF invalid # NoError
             THEN Failed(fs, invalid)
             ELSE Completed([fs EXCEPT !.draft = Present(built)], "generate-draft")

ApproveWithoutDraft(fs) == Completed([fs EXCEPT !.final = fs.draft], "approve-program")

\* shutil.copyfile(draft_path, final_path)
cmd_approve_program(fs) ==
    IF fs.draft = Absent
    THEN Failed(fs, FileNotFoundError(<<"Draft program not found">>))
    ELSE Completed([fs EXCEPT !.final = fs.draft], "approve-program")

RECURSIVE FirstSeen(_, _)
FirstSeen(exs, seen) ==
    IF exs = <<>> THEN <<>>
    ELSE IF Head(exs).canonical_key \in seen THEN FirstSeen(Tail(exs), seen)
    ELSE <<Head(exs).canonical_key>>
         \o FirstSeen(Tail(exs), seen \cup {Head(exs).canonical_key})

RECURSIVE DayExercises(_)
DayExercises(ds) ==
    IF ds = <<>> THEN <<>>
    ELSE Flatten(ds[1].supersets) \o <<ds[1].core>> \o DayExercises(Tail(ds))

\* the canonical keys of collect_unique_exercises, in its order
collect_unique_exercises(prog) == FirstSeen(DayExercises(prog.days), {})

\* the manifest resolve_images_for_program writes: one credit per unique
\* exercise (whether an entry is a downloaded image or a placeholder depends on
\* the network and is left out)
resolve_images_for_program(prog) == [credits |-> collect_unique_exercises(prog)]

cmd_fetch_images(fs, stage) ==
    IF fs[stage] = Absent
    THEN Failed(fs, FileNotFoundError(<<"Program not found">>))
    ELSE LET invalid == cli_validate_program_constraints(fs[stage][1])
         IN  IF invalid # NoError
             THEN Failed(fs, invalid)
             ELSE Completed([fs EXCEPT !.manifest = Present(resolve_images_for_program(fs[stage][1]))],
                            "fetch-images")

\* the report render_pdf_html writes: which stage and which days it shows
Report(prog, stage) ==
    [stage |-> stage, days |-> [n \in 1..Len(prog.days) |-> prog.days[n].title]]

cmd_build_pdf(fs, stage) ==
    IF fs[stage] = Absent
    THEN Failed(fs, FileNotFoundError(<<"Program not found">>))
    ELSE IF fs.manifest = Absent
    THEN Failed(fs, FileNotFoundError(<<"image_manifest.json not found">>))
    ELSE LET invalid == cli_validate_program_constraints(fs[stage][1])
         IN  IF invalid # NoError
             THEN Failed(fs, invalid)
             ELSE Completed([fs EXCEPT !.pdf = Present(Report(fs[stage][1], stage))],
                            "build-pdf")

cmd_all(fs, days_arg, goal_arg, auto_approve) ==
    LET stage == IF auto_approve THEN "final" ELSE "draft"
        drafted == cmd_generate_draft(fs, days_arg, goal_arg)
        approved == IF auto_approve
                    THEN Then(drafted, LAMBDA f : cmd_approve_program(f))
                    ELSE drafted
        fetched == Then(approved, LAMBDA f : cmd_fetch_images(f, stage))
    IN  Then(fetched, LAMBDA f : cmd_build_pdf(f, stage))

\* the arguments given to the commands
DaysArgs == {Absent, <<2>>, <<4>>}

GoalArgs == {<<Str_fat_loss>>}

GymDaysArgs == {Absent, <<7>>}

GymDaysUpdates == {3, 9}

Stages == {"draft", "final"}

InitCli ==
    /\ entry = "cli"
    /\ templates_cfg = NoInput
    /\ progression_cfg = NoInput
    /\ profile = NoInput
    /\ days = 0
    /\ goal = <<>>
    /\ program = NoProgram
    /\ pc = "cli"
    /\ cap = 0
    /\ di = 0
    /\ iters = 0
    /\ start_sets = 0
    /\ error = NoError
    /\ run = 1
    /\ first = <<>>
    /\ files = NoFiles
    /\ result = NoCommand
    /\ done = {}

\* a command ran to its end or to its exception
Ran(cmd, outcome) ==
    /\ entry = "cli"
    /\ LET o == outcome
       IN  /\ files' = o.files
           /\ result' = [cmd |-> cmd, ok |-> o.error = NoError]
           /\ done' = done \cup o.ran
    /\ UNCHANGED builder

ProfileCreate ==
    \E g \in GymDaysArgs, force \in BOOLEAN :
        Ran("profile-create", cmd_profile_create(files, g, force))

ProfileShow == Ran("profile-show", cmd_profile_show(files))

ProfileUpdate == \E v \in GymDaysUpdates : Ran("profile-update", cmd_profile_update(files, v))

GenerateDraft ==
    \E d \in DaysArgs, g \in GoalArgs :
        Ran("generate-draft", cmd_generate_draft(files, d, g))

ApproveProgram == Ran("approve-program", cmd_approve_program(files))

FetchImages == \E stage \in Stages : Ran("fetch-images", cmd_fetch_images(files, stage))

BuildPdf == \E stage \in Stages : Ran("build-pdf", cmd_build_pdf(files, stage))

All ==
    \E d \in DaysArgs, g \in GoalArgs, auto_approve \in BOOLEAN :
        Ran("all", cmd_all(files, d, g, auto_approve))

NextCli ==
    \/ ProfileCreate
    \/ ProfileShow
    \/ ProfileUpdate
    \/ GenerateDraft
    \/ ApproveProgram
    \/ FetchImages
    \/ BuildPdf
    \/ All

SpecCli == InitCli /\ [][NextCli]_vars

(***************************************************************************)
(* image_library.py: resolve_images_for_program called on a program, with  *)
(* image files on disk and a curated catalog file.  `files` holds the image *)
(* files that exist, the catalog file and the manifest file; `first` holds  *)
(* the files before the call.  Of a credit record the title, author and     *)
(* license texts are left out.                                             *)
(***************************************************************************)
Key_leg_press == <<"l", "e", "g", "_", "p", "r", "e", "s", "s">>
Key_front_plank == <<"f", "r", "o", "n", "t", "_", "p", "l", "a", "n", "k">>

\* canonical keys of the exercises: two slugs and a key that slugify changes
CanonicalKeys == {Key_leg_press, Name_Leg_Press, Key_front_plank}

\* image_path "" of a credit record or a catalog item
NoPath == [dir |-> "", stem |-> <<>>, ext |-> ""]

\* paths.image_library_dir / <stem><ext>
LibraryPath(stem, ext) == [dir |-> "assets/exercise_library", stem |-> stem, ext |-> ext]

\* an image file outside the library directory
DownloadedPath == [dir |-> "downloads", stem |-> Key_leg_press, ext |-> ".png"]

\* for ext in [".jpg", ".jpeg", ".png", ".webp"]
Extensions == <<".jpg", ".jpeg", ".png", ".webp">>

\* find_local_library_image: the first candidate that exists, NoPath for None
find_local_library_image(fs, canonical_key) ==
    LET base == slugify(canonical_key)
        hits == {e \in 1..Len(Extensions) : LibraryPath(base, Extensions[e]) \in fs.existing}
    IN  IF hits = {} THEN NoPath
        ELSE LibraryPath(base, Extensions[CHOOSE e \in hits : \A h \in hits : e <= h])

\* load_curated_catalog: the file, {"items": {}} if it does not exist
load_curated_catalog(fs) ==
    IF fs.catalog = Absent THEN [items |-> <<>>] ELSE fs.catalog[1]

CollectEveryExercise(exs, seen) == exs

\* the loop of collect_unique_exercises over the exercises in program order
RECURSIVE UniqueExercises(_, _)
UniqueExercises(exs, seen) ==
    IF exs = <<>> THEN <<>>
    ELSE IF Head(exs).canonical_key \in seen THEN UniqueExercises(Tail(exs), seen)
    ELSE <<Head(exs)>> \o UniqueExercises(Tail(exs), seen \cup {Head(exs).canonical_key})

\* image_library.collect_unique_exercises
lib_collect_unique_exercises(prog) == UniqueExercises(DayExercises(prog.days), {})

\* a catalog item of the key with a non-empty image_path that exists
CatalogHit(fs, items, key) ==
    /\ key \in DOMAIN items
    /\ items[key].image_path # NoPath
    /\ items[key].image_path \in fs.existing

\* the CreditEntry of one exercise
Credit(fs, items, exercise) ==
    LET key == exercise.canonical_key
        local_img == find_local_library_image(fs, key)
    IN  IF CatalogHit(fs, items, key)
        THEN [canonical_key |-> key, exercise |-> exercise.name,
              image_path |-> items[key].image_path, kind |-> "curated_library"]
        ELSE IF local_img # NoPath
        THEN [canonical_key |-> key, exercise |-> exercise.name,
              image_path |-> local_img, kind |-> "curated_library"]
        ELSE [canonical_key |-> key, exercise |-> exercise.name,
              image_path |-> NoPath, kind |-> "missing"]

\* catalog_items after the loop: an item is written for every exercise
\* resolved from the library directory (an exercise is visited once, so the
\* items written during the loop are never read by it)
CatalogItemsAfter(fs, items, uniq) ==
    LET local == {uniq[i].canonical_key : i \in
                    {i \in 1..Len(uniq) : /\ ~CatalogHit(fs, items, uniq[i].canonical_key)
                                          /\ find_local_library_image(fs, uniq[i].canonical_key) # NoPath}}
    IN  [k \in DOMAIN items \cup local |->
            IF k \in local THEN [image_path |-> find_local_library_image(fs, k)] ELSE items[k]]

\* image_library.resolve_images_for_program: the manifest and the files after
lib_resolve_images_for_program(fs, prog) ==
    LET items == load_curated_catalog(fs).items
        uniq == lib_collect_unique_exercises(prog)
        manifest == [credits |-> [i \in 1..Len(uniq) |-> Credit(fs, items, uniq[i])]]
    IN  [fs EXCEPT !.manifest = Present(manifest),
                   !.catalog = Present([items |-> CatalogItemsAfter(fs, items, uniq)])]

ImageExercise(key) == [name |-> slugify(key), canonical_key |-> key]

ImageDay(a, b, c) ==
    [supersets |-> <<[exercises |-> <<ImageExercise(a), ImageExercise(b)>>]>>,
     core |-> ImageExercise(c)]

ImagePrograms ==
    UNION {{[days |-> <<ImageDay(a, b, c)>>], [days |-> <<ImageDay(a, b, c), ImageDay(c, a, b)>>]} :
              a \in CanonicalKeys, b \in CanonicalKeys, c \in CanonicalKeys}

ImageFiles ==
    SUBSET {LibraryPath(Key_leg_press, ".png"), LibraryPath(Key_leg_press, ".jpeg"),
            LibraryPath(Key_front_plank, ".webp"), DownloadedPath}

CuratedCatalogs ==
    {Absent,
     Present([items |-> <<>>]),
     Present([items |-> [k \in {Key_leg_press} |-> [image_path |-> DownloadedPath]]]),
     Present([items |-> [k \in {Name_Leg_Press} |-> [image_path |-> NoPath]]]),
     Present([items |-> [k \in {Key_front_plank} |->
                            [image_path |-> LibraryPath(Key_front_plank, ".webp")]]])}

InitImages ==
    /\ entry = "images"
    /\ templates_cfg = NoInput
    /\ progression_cfg = NoInput
    /\ profile = NoInput
    /\ days = 0
    /\ goal = <<>>
    /\ program \in ImagePrograms
    /\ pc = "call"
    /\ cap = 0
    /\ di = 0
    /\ iters = 0
    /\ start_sets = 0
    /\ error = NoError
    /\ run = 1
    /\ first = <<>>
    /\ \E existing \in ImageFiles : \E catalog \in CuratedCatalogs :
          files = [manifest |-> Absent, catalog |-> catalog, existing |-> existing]
    /\ result = NoCommand
    /\ done = {}

\* resolve_images_for_program(paths, program)
ResolveImages ==
    /\ pc = "call"
    /\ files' = lib_resolve_images_for_program(files, program)
    /\ first' = <<files>>
    /\ pc' = "resolved"
    /\ UNCHANGED <<inputs, program, locals, error, run, result, done>>

NextImages == ResolveImages

SpecImages == InitImages /\ [][NextImages]_vars

(***************************************************************************)
(* Claims.                                                                 *)
(***************************************************************************)
Estimate(i) == estimate_day_duration_minutes(program.days[i])

DayIndices == 1..Len(program.days)

BuildReturned == entry = "build" /\ pc = "returned"

\* the program as apply_goal_rules left it in this call
GoalApplied ==
    apply_goal_rules(Assemble(templates_cfg, progression_cfg, profile, days, goal),
                     progression_cfg, goal)

\* the enforcer lowered a set count of the program
SetsReduced ==
    \E i \in DayIndices : TotalSets(program.days[i]) < TotalSets(GoalApplied.days[i])

\* C1: whenever build_program returns a program, every day carries
\* estimated_duration_min equal to the estimate of its final sets, and that
\* value is at most the program's session_cap_minutes.
C1_ReturnedWithinCap ==
    BuildReturned =>
        /\ program.session_cap_minutes # Absent
        /\ \A i \in DayIndices :
              /\ program.days[i].estimated_duration_min = Present(Estimate(i))
              /\ Estimate(i) <= program.session_cap_minutes[1]

C1_Witness == BuildReturned /\ SetsReduced

\* C2: the repair loop of one day runs at most (total set count of the day's
\* superset exercises and core, unparseable strings counted at their default)
\* iterations, so the enforcer terminates.
C2_LoopBound == iters <= start_sets

\* every day the enforcer could not bring under the cap had its finisher replaced
\* after the last reduction step
OverCapOnlySkipped ==
    \A i \in DayIndices :
        \/ Estimate(i) <= program.session_cap_minutes[1]
        \/ /\ program.days[i].finisher = SkipFinisherText(program.session_cap_minutes[1])
           /\ TargetSuperset(program.days[i]) = 0
           /\ parse_set_count(program.days[i].core.sets_reps, 2) <= 1
           /\ program.days[i].estimated_duration_min = Present(Estimate(i))

EnforcerAloneReturned == entry = "enforce" /\ pc = "returned"

EnforcerAloneRaised == entry = "enforce" /\ pc = "raised"

RaiseNamesDay ==
    /\ error = ValueError(<<"Could not fit session within ", cap, " minutes: ", Day.title>>)
    /\ Estimate(di) > cap
    /\ TargetSuperset(Day) = 0
    /\ parse_set_count(Day.core.sets_reps, 2) <= 1

\* C3 as stated: the enforcer on its own either returns with every day within
\* the cap, or raises an error naming a day that is over the cap with no
\* reduction step left.
C3_Original ==
    /\ EnforcerAloneReturned =>
          \A i \in DayIndices : Estimate(i) <= program.session_cap_minutes[1]
    /\ EnforcerAloneRaised => RaiseNamesDay

\* C3 amended: when the enforcer on its own returns, every day is within the
\* cap or is a day with no reduction step left (no superset exercise above 2
\* sets, core at 1 set or less) whose finisher was replaced by the skip message
\* and whose annotation is its over-cap estimate; when it raises, the error
\* names a day over the cap with no reduction step left and no finisher.
C3_EnforcerOutcomes ==
    /\ EnforcerAloneReturned => OverCapOnlySkipped
    /\ EnforcerAloneRaised => (RaiseNamesDay /\ Day.finisher = <<>>)

C3_Witness ==
    /\ EnforcerAloneReturned
    /\ \E i \in DayIndices : Estimate(i) > program.session_cap_minutes[1]

\* the day of the scenario: two supersets, every exercise at 4 sets, core at 3
ScenarioDay(day) ==
    /\ Len(day.supersets) = 2
    /\ \A i \in 1..2 : \A j \in 1..Len(day.supersets[i].exercises) :
          parse_set_count(day.supersets[i].exercises[j].sets_reps, 3) = 4
    /\ parse_set_count(day.core.sets_reps, 2) = 3

\* C4: the estimate is 5 + 3.5 per round + (1.5 per core set + 1.0) + 4 rounded
\* to the nearest minute, a half rounding up: the scenario day (raw total 42.5)
\* is estimated at 43.
C4_EstimateHalfUp ==
    \A i \in DayIndices :
        /\ Estimate(i) = RoundHalfUp(HalfMinutes(program.days[i]))
        /\ ScenarioDay(program.days[i]) => Estimate(i) = 43

\* C5: giving one exercise (superset member or core) a smaller set count, all
\* else equal, never raises the estimate of the day.
C5_EstimateMonotone ==
    (entry = "estimate" /\ first # <<>>) =>
        Estimate(1) <= estimate_day_duration_minutes(first[1])

C5_Witness ==
    /\ entry = "estimate"
    /\ first # <<>>
    /\ Estimate(1) < estimate_day_duration_minutes(first[1])

Min(a, b) == IF a < b THEN a ELSE b

\* C6: a returned program has exactly min(days, number of templates) days, and
\* they are the first that many templates of the catalog, in catalog order.
C6_DayCount ==
    BuildReturned =>
        /\ Len(program.days) = Min(days, Len(templates_cfg.days))
        /\ \A n \in DayIndices :
              /\ program.days[n].key = templates_cfg.days[n].key
              /\ program.days[n].title = templates_cfg.days[n].title

ConfigsAccepted == entry = "build" /\ pc = "assembled"

\* C7: for every goal and every progression configuration that
\* validate_progression_config accepts, resolve_goal_key returns a key of
\* goal_profiles.
C7_ResolvedGoalKnown ==
    ConfigsAccepted =>
        resolve_goal_key(goal, progression_cfg) \in DOMAIN progression_cfg.goal_profiles

\* C8: with fat_loss among the goal profiles, the goal "Fat Loss!" resolves to
\* the same key as "fat_loss".
C8_FatLossBang ==
    (ConfigsAccepted /\ goal = Str_Fat_Loss_bang
        /\ Str_fat_loss \in DOMAIN progression_cfg.goal_profiles) =>
        resolve_goal_key(goal, progression_cfg)
            = resolve_goal_key(Str_fat_loss, progression_cfg)

ResolvedProfile == progression_cfg.goal_profiles[resolve_goal_key(goal, progression_cfg)]

\* C9: after apply_goal_rules, in every day every exercise of the first
\* superset has the resolved goal profile's first_pair, every exercise of every
\* other superset has second_pair, the core has core_scheme, the finisher is
\* the goal profile's finisher, and program.goal is the resolved key.
C9_GoalRulesApplied ==
    (entry = "build" /\ pc = "goal_applied") =>
        /\ program.goal = resolve_goal_key(goal, progression_cfg)
        /\ \A d \in DayIndices :
              /\ \A i \in 1..Len(program.days[d].supersets) :
                    \A j \in 1..Len(program.days[d].supersets[i].exercises) :
                        program.days[d].supersets[i].exercises[j].sets_reps =
                            IF i = 1 THEN ResolvedProfile.first_pair
                            ELSE ResolvedProfile.second_pair
              /\ program.days[d].core.sets_reps = ResolvedProfile.core_scheme
              /\ program.days[d].finisher = ResolvedProfile.finisher

C9_Witness ==
    /\ entry = "build"
    /\ pc = "goal_applied"
    /\ program.goal # goal
    /\ \E d \in DayIndices : Len(program.days[d].supersets) = 3
    /\ ResolvedProfile.first_pair # ResolvedProfile.second_pair

TemplateOf(n) ==
    LET selected == PySlicePrefix(templates_cfg.days, days)
    IN  selected[CHOOSE m \in 1..Len(selected) :
                     /\ selected[m].key = program.days[n].key
                     /\ \A k \in (m + 1)..Len(selected) : selected[k].key # selected[m].key]

\* C11: no step of build_program (goal rewriting and cap enforcement included)
\* changes the template catalog or the caller's profile: the writes of
\* sets_reps, finisher, estimated_duration_min and session_cap_minutes land in
\* the program only.
C11_InputsUntouched ==
    [][entry = "build" => (templates_cfg' = templates_cfg /\ profile' = profile)]_vars

\* a returned program whose sets, finisher, annotation and cap differ from the
\* template it was made from
C11_Witness ==
    /\ BuildReturned
    /\ program.session_cap_minutes # Absent
    /\ \E n \in DayIndices :
          /\ program.days[n].supersets # TemplateOf(n).supersets
          /\ program.days[n].core # TemplateOf(n).core
          /\ program.days[n].finisher # TemplateOf(n).finisher
          /\ program.days[n].estimated_duration_min # Absent
          /\ TotalSets(program.days[n]) < TotalSets(GoalApplied.days[n])

\* validate_program_constraints was called in this build_program call: the
\* enforcer has recorded the cap
ValidatorRan ==
    /\ entry = "build"
    /\ pc \in {"returned", "raised"}
    /\ "session_cap_minutes" \in DOMAIN program
    /\ program.session_cap_minutes # Absent

CountsInRange ==
    \A i \in DayIndices :
        ExerciseCount(program.days[i]) >= 4 /\ ExerciseCount(program.days[i]) <= 6

\* the lowercased exercise names of a program: superset exercises and cores
ExerciseNames(prog) ==
    UNION {{Lower(Flatten(prog.days[i].supersets)[j].name) :
                j \in 1..Len(Flatten(prog.days[i].supersets))}
           \cup {Lower(prog.days[i].core.name)} : i \in 1..Len(prog.days)}

\* the categories none of whose keywords is contained in a single exercise name
UnmatchedCategories(prog) ==
    SelectSeq(MovementOrder,
              LAMBDA c : ~\E name \in ExerciseNames(prog) :
                             \E kw \in MOVEMENT_KEYWORDS[c] : Contains(name, kw))

MovementError(categories) == ValueError(<<"Program missing movement patterns: ", categories>>)

\* C12: when the validator gets past the exercise counts, it raises the
\* movement error exactly when some category has no single exercise name
\* containing one of its keywords, and the error lists those categories.
C12_MovementCheck ==
    (ValidatorRan /\ CountsInRange) =>
        IF UnmatchedCategories(program) # <<>>
        THEN error = MovementError(UnmatchedCategories(program))
        ELSE error.kind = "none" \/ error.msg[1] # "Program missing movement patterns: "

CountError == ValueError(<<"Each day must have 4-6 exercises including core.">>)

\* C13: every day of a returned program has between 4 and 6 exercises, the
\* core counted as one; when a single day of the program is outside that range
\* the validator fails for the whole program.
C13_ExerciseCounts ==
    /\ BuildReturned => CountsInRange
    /\ (ValidatorRan /\ ~CountsInRange) => (pc = "raised" /\ error = CountError)

\* the validator rejected a program with one day in range and one day out of it
C13_Witness ==
    /\ ValidatorRan
    /\ error = CountError
    /\ \E i \in DayIndices : ExerciseCount(program.days[i]) = 3
    /\ \E i \in DayIndices : ExerciseCount(program.days[i]) = 5

\* --days choices=[2, 3, 4, 5]
SelectableDays == {2, 3, 4, 5}

\* C14: with the built-in five-day catalog and a selectable day count, the
\* assembled program hits all six movement categories for every goal, and the
\* validator never raises the movement error.
C14_BuiltinCoverage ==
    (/\ entry = "build"
     /\ templates_cfg = Catalog(day_templates)
     /\ days \in SelectableDays
     /\ Len(program.days) > 0) =>
        /\ MissingMovements(program) = <<>>
        /\ error # MovementError(MissingMovements(program))

\* the catalog lacks a non-empty days list or a defaults block, or the
\* progression configuration lacks a non-empty goal_profiles mapping
ConfigMalformed ==
    \/ "days" \notin DOMAIN templates_cfg
    \/ templates_cfg.days = <<>>
    \/ "defaults" \notin DOMAIN templates_cfg
    \/ "goal_profiles" \notin DOMAIN progression_cfg
    \/ DOMAIN progression_cfg.goal_profiles = {}

\* the errors of the two configuration checks that name the configuration file
ConfigurationErrors ==
    {ValueError(<<"config/program_templates.json must contain 'days' list">>),
     ValueError(<<"config/program_templates.json must contain 'defaults' object">>),
     ValueError(<<"config/progression_rules.json must contain 'goal_profiles' object">>)}

\* C15: with a catalog lacking a non-empty days list or a defaults block, or a
\* progression configuration lacking a non-empty goal_profiles mapping,
\* build_program raises a configuration error before it selects a day or
\* applies a goal rule: no program is ever assembled.
C15_ConfigFailFast ==
    (entry = "build" /\ ConfigMalformed) =>
        /\ program = NoProgram
        /\ pc \in {"start", "raised"}
        /\ pc = "raised" => error \in ConfigurationErrors

\* C16: build_program applies the goal rules, then runs the enforcer, then the
\* validator; it returns the program only when the enforcer and the validator
\* both completed without error, and after an error the caller gets no program.
C16_BuildOrder ==
    [][entry = "build" =>
          /\ pc' = "goal_applied" => pc = "assembled"
          /\ (pc' = "enforce_loop" /\ pc \notin {"enforce_loop", "enforce_break"}) =>
                 pc = "goal_applied"
          /\ pc' = "enforced" =>
                 (pc = "enforce_loop" /\ program'.session_cap_minutes # Absent)
          /\ (pc' = "returned" /\ pc # "returned") =>
                 /\ pc = "enforced"
                 /\ program' = program
                 /\ validate_program_constraints(program') = NoError
                 /\ error' = NoError
                 /\ Outcome'.program = <<program>>
          /\ pc' = "raised" => (error' # NoError /\ Outcome'.program = <<>>)]_vars

\* the enforcer completed leaving a day over the cap with its finisher skipped,
\* the validator rejected the program and nothing was returned
C16_Witness ==
    /\ ValidatorRan
    /\ pc = "raised"
    /\ Outcome.program = <<>>
    /\ \E i \in DayIndices :
          /\ program.days[i].finisher = SkipFinisherText(program.session_cap_minutes[1])
          /\ Estimate(i) > program.session_cap_minutes[1]

\* the enforcer is running or has returned on this program
EnforcerEntered == pc \in {"enforce_loop", "enforce_break", "enforced", "returned"}

\* profile.session_length_minutes when it is a positive integer, 40 when it is
\* <= 0 or absent
StatedCap ==
    IF /\ "session_length_minutes" \in DOMAIN program.profile
       /\ program.profile.session_length_minutes > 0
    THEN program.profile.session_length_minutes
    ELSE 40

\* C17: after enforce_session_duration_cap returns, session_cap_minutes is the
\* profile's session_length_minutes when that is positive and 40 when it is
\* <= 0 or absent; that value is the cap of every day of the run.
C17_CapRecorded ==
    (entry \in {"build", "enforce"} /\ EnforcerEntered) =>
        /\ cap = StatedCap
        /\ pc \in {"enforced", "returned"} => program.session_cap_minutes = Present(StatedCap)
        /\ pc \in {"enforce_loop", "enforce_break"} => program.session_cap_minutes = Absent

\* the enforcer returned on a program of several days whose profile has a
\* session length of 0: the cap is 40 and it lowered sets to fit it
C17_Witness ==
    /\ entry = "build"
    /\ pc = "enforced"
    /\ "session_length_minutes" \in DOMAIN program.profile
    /\ program.profile.session_length_minutes <= 0
    /\ program.session_cap_minutes = Present(40)
    /\ Len(program.days) >= 2
    /\ SetsReduced

ProfileValidated == entry = "profile" /\ pc \in {"returned", "raised"}

HasRequiredFields ==
    \A i \in 1..Len(REQUIRED_PROFILE_FIELDS) : REQUIRED_PROFILE_FIELDS[i] \in DOMAIN profile

C19_Workflow ==
    [][entry = "cli" =>
          /\ files'.final # Absent =>
                 ("generate-draft" \in done' /\ "approve-program" \in done')
          /\ (result'.cmd = "approve-program" /\ files.draft = Absent) =>
                 (~result'.ok /\ files' = files)
          /\ (result'.cmd = "approve-program" /\ result'.ok) =>
                 (files.draft # Absent /\ files'.final = files.draft)
          /\ files'.final # files.final => files'.final = files'.draft
          /\ (result'.cmd = "build-pdf" /\ result'.ok) =>
                 /\ files[files'.pdf[1].stage] # Absent
                 /\ files.manifest # Absent
                 /\ "fetch-images" \in done
          /\ (result'.cmd = "all" /\ result'.ok) =>
                 /\ files'[files'.pdf[1].stage] # Absent
                 /\ files'.manifest # Absent
                 /\ "fetch-images" \in done']_vars

\* build-pdf completed for the final stage, for a final that was approved
\* before the draft was generated again with other days
C19_Witness ==
    /\ entry = "cli"
    /\ result = [cmd |-> "build-pdf", ok |-> TRUE]
    /\ files.pdf # Absent
    /\ files.pdf[1].stage = "final"
    /\ files.final # Absent
    /\ files.draft # files.final

\* validate_program_constraints ended, in build_program or on its own
ValidatorEnded ==
    \/ ValidatorRan
    \/ entry = "validate" /\ pc \in {"returned", "raised"}

\* the annotation of a day, or its estimate when it has none
AnnotatedOrFresh(day) ==
    IF day.estimated_duration_min # Absent
    THEN day.estimated_duration_min[1]
    ELSE estimate_day_duration_minutes(day)

\* the days whose annotation (or estimate, without one) exceeds session_cap_minutes
DaysOverCap ==
    {i \in DayIndices : AnnotatedOrFresh(program.days[i]) > program.session_cap_minutes[1]}

FirstOverCap == CHOOSE i \in DaysOverCap : \A k \in DaysOverCap : i <= k

\* C20: when the validator reaches its session-cap check with
\* session_cap_minutes > 0, it raises for the first day in program order whose
\* estimated_duration_min (the fresh estimate if the day has no annotation)
\* exceeds the cap, naming the day, that value and the cap, and it returns when
\* no day exceeds the cap.
C20_CapCheck ==
    (/\ ValidatorEnded
     /\ CountsInRange
     /\ MissingMovements(program) = <<>>
     /\ program.session_cap_minutes # Absent
     /\ program.session_cap_minutes[1] > 0) =>
        IF DaysOverCap = {}
        THEN pc = "returned" /\ error = NoError
        ELSE /\ pc = "raised"
             /\ error = ValueError(<<program.days[FirstOverCap].title, " estimated at ",
                                     AnnotatedOrFresh(program.days[FirstOverCap]),
                                     " min, exceeds cap ", program.session_cap_minutes[1],
                                     " min.">>)

\* the validator on its own raised for the second day, which has no annotation
\* and a fresh estimate over the cap, the first day being annotated within it
\* although its sets are over it
C20_Witness ==
    /\ entry = "validate"
    /\ pc = "raised"
    /\ program.session_cap_minutes = Present(40)
    /\ program.days[1].estimated_duration_min = Present(30)
    /\ Estimate(1) > 40
    /\ program.days[2].estimated_duration_min = Absent
    /\ DaysOverCap = {2}

\* the set counts of the exercises of a superset, in declared order
SetCounts(superset) ==
    [j \in 1..Len(superset.exercises) |-> parse_set_count(superset.exercises[j].sets_reps, 3)]

LastSuperset(day) == day.supersets[Len(day.supersets)]

\* a step of the while body that changed the program
RepairStep == InLoopBody /\ program' # program

\* C21: on a day over the cap whose last superset has every exercise at 4
\* sets, the first repair step lowers the last exercise of the last superset
\* from 4 to 3 sets and leaves the other exercises of that superset at 4.
C21_LastExerciseFirst ==
    [][(/\ RepairStep
        /\ iters = 0
        /\ Day.supersets # <<>>
        /\ Len(LastSuperset(Day).exercises) >= 2
        /\ \A j \in DOMAIN SetCounts(LastSuperset(Day)) : SetCounts(LastSuperset(Day))[j] = 4) =>
            LET n == Len(LastSuperset(Day).exercises)
                after == SetCounts(LastSuperset(program'.days[di]))
            IN  /\ after[n] = 3
                /\ \A j \in 1..(n - 1) : after[j] = 4]_vars

CoreCount(day) == parse_set_count(day.core.sets_reps, 2)

\* every exercise of the supersets after the i-th has at most 2 sets
LaterAtMinimum(day, i) ==
    \A k \in (i + 1)..Len(day.supersets) :
        \A j \in DOMAIN SetCounts(day.supersets[k]) : SetCounts(day.supersets[k])[j] <= 2

\* C22: during the enforcement of a day, an exercise of superset i is
\* decremented only in a state where every exercise of every later superset
\* has at most 2 sets, and the core is decremented only in a state where every
\* exercise of every superset has at most 2 sets.
C22_RepairPriority ==
    [][InLoopBody =>
        /\ \A i \in 1..Len(Day.supersets) :
              SetCounts(program'.days[di].supersets[i]) # SetCounts(Day.supersets[i])
                  => LaterAtMinimum(Day, i)
        /\ CoreCount(program'.days[di]) # CoreCount(Day) => LaterAtMinimum(Day, 0)]_vars

\* the enforcer on its own took the test day from 4/4, 4/4 sets and core 3 to
\* 2 sets everywhere: the first superset and the core were decremented
C22_Witness ==
    /\ entry = "enforce"
    /\ pc = "enforce_loop"
    /\ di = 1
    /\ start_sets = 19
    /\ LaterAtMinimum(program.days[1], 0)
    /\ SetCounts(program.days[1].supersets[1]) = <<2, 2>>
    /\ CoreCount(program.days[1]) = 2

\* the text after "x" of a sets_reps string, <<>> if it does not parse
RepRange(sets_reps) == SetsRegex(Strip(sets_reps)).rest

\* `new` is `old` with the set count lowered by exactly 1 and the same rep range
LoweredByOne(old, new, default) ==
    /\ parse_set_count(new, default) = parse_set_count(old, default) - 1
    /\ RepRange(new) = RepRange(old)

\* the step changed nothing of the program but the sets_reps of one exercise
\* of the current day, whose count it lowered by 1
OneExerciseLowered ==
    \/ \E i \in 1..Len(Day.supersets) : \E j \in 1..Len(Day.supersets[i].exercises) :
          LET new == program'.days[di].supersets[i].exercises[j].sets_reps
          IN  /\ LoweredByOne(Day.supersets[i].exercises[j].sets_reps, new, 3)
              /\ program' = [program EXCEPT !.days[di].supersets[i].exercises[j].sets_reps = new]
    \/ LET new == program'.days[di].core.sets_reps
       IN  /\ LoweredByOne(Day.core.sets_reps, new, 2)
           /\ program' = [program EXCEPT !.days[di].core.sets_reps = new]

\* C23: each iteration of the repair loop that goes on to re-estimate lowers
\* the set count of exactly one exercise (a superset member or the core) by
\* exactly 1, keeps its rep-range text, and leaves every other exercise, the
\* rest of the day and all other days unchanged.
C23_OneStepPerIteration ==
    [][(InLoopBody /\ pc' = "enforce_loop") => OneExerciseLowered]_vars

EnforcerRunning == pc \in {"goal_applied", "enforce_call", "enforce_loop", "enforce_break"}

\* the step removed no exercise of the day, raised no set count, and kept a
\* superset exercise with >= 2 sets at >= 2 and a core with >= 1 set at >= 1
FloorsKept(before, after) ==
    /\ Len(after.supersets) = Len(before.supersets)
    /\ \A i \in 1..Len(before.supersets) :
          LET old == SetCounts(before.supersets[i])
              new == SetCounts(after.supersets[i])
          IN  /\ DOMAIN new = DOMAIN old
              /\ \A j \in DOMAIN old : new[j] <= old[j] /\ (old[j] >= 2 => new[j] >= 2)
    /\ CoreCount(after) <= CoreCount(before)
    /\ CoreCount(before) >= 1 => CoreCount(after) >= 1

\* C24: no step of the enforcer takes a superset exercise that has >= 2 sets
\* below 2 or a core that has >= 1 set below 1, raises a set count or removes an
\* exercise; so an exercise that started at or above its floor stays there in
\* every state of the enforcement.
C24_Floors ==
    [][EnforcerRunning =>
        /\ Len(program'.days) = Len(program.days)
        /\ \A d \in DayIndices : FloorsKept(program.days[d], program'.days[d])]_vars

\* the enforcer on its own lowered the test day from 4/4, 4/4 sets and core 3
\* to the floors (2 sets everywhere, core 1) and the day is still over the cap
C24_Witness ==
    /\ entry = "enforce"
    /\ pc \in {"enforce_break", "raised"}
    /\ di = 1
    /\ start_sets = 19
    /\ LaterAtMinimum(program.days[1], 0)
    /\ SetCounts(program.days[1].supersets[1]) = <<2, 2>>
    /\ CoreCount(program.days[1]) = 1
    /\ Estimate(1) > cap

\* the days the enforcer of this call of build_program has left
DaysEnforced == {i \in DayIndices : entry = "build" /\ i < di}

\* a day the enforcement left within the cap has the finisher apply_goal_rules gave it
FinisherKeptWithinCap ==
    \A i \in DaysEnforced :
        Estimate(i) <= cap => program.days[i].finisher = GoalApplied.days[i].finisher

\* a step of the enforcer changes a finisher only to the skip message, on the
\* current day, which is over the cap with no superset exercise above 2 sets
\* and a core count satisfying CoreAtFloor
FinisherSkippedOnlyAt(CoreAtFloor(_)) ==
    EnforcerRunning =>
        \A d \in DayIndices :
            program'.days[d].finisher # program.days[d].finisher =>
                /\ d = di
                /\ program'.days[d].finisher = SkipFinisherText(cap)
                /\ Estimate(d) > cap
                /\ LaterAtMinimum(program.days[d], 0)
                /\ CoreAtFloor(CoreCount(program.days[d]))

CoreAtOne(n) == n = 1

CoreAtMostOne(n) == n <= 1

\* C25 as stated: a finisher is replaced by the skip message only in a state
\* where the day exceeds the cap, no superset exercise has more than 2 sets and
\* the core is at 1 set; a day the enforcement brought within the cap still has
\* the goal profile's finisher.
C25_Original ==
    [][FinisherSkippedOnlyAt(CoreAtOne)]_vars /\ []FinisherKeptWithinCap

\* C25 amended: a finisher is replaced by the skip message only in a state
\* where the day exceeds the cap, no superset exercise has more than 2 sets and
\* the core is at 1 set or less (a core given with 0 sets); a day the
\* enforcement brought within the cap still has the goal profile's finisher.
C25_SkipOnlyAtFloor ==
    [][FinisherSkippedOnlyAt(CoreAtMostOne)]_vars /\ []FinisherKeptWithinCap

\* build_program: the enforcer lowered the current day to its floors and
\* replaced its finisher
C25_Witness ==
    /\ entry = "build"
    /\ pc = "enforce_break"
    /\ Day.finisher = SkipFinisherText(cap)
    /\ TotalSets(Day) < start_sets
    /\ CoreCount(Day) = 1

\* the days the enforcer has left with the skip message as their finisher
SkippedDays ==
    {i \in DayIndices : entry \in {"build", "enforce"} /\ i < di
                        /\ program.days[i].finisher = SkipFinisherText(cap)}

\* C26: the finisher-skip step does not lower the estimate: a day whose
\* finisher was replaced is still over the cap and is annotated with that
\* over-cap estimate, build_program ends with a ValueError for it, and no
\* program build_program returns contains the skip message.
C26_SkipKeepsEstimate ==
    /\ pc = "enforce_break" => Estimate(di) > cap
    /\ \A i \in SkippedDays :
          /\ Estimate(i) > cap
          /\ program.days[i].estimated_duration_min = Present(Estimate(i))
          /\ (entry = "build" /\ pc \in {"returned", "raised"}) =>
                (pc = "raised" /\ error.kind = "ValueError")
    /\ BuildReturned =>
          \A i \in DayIndices :
              program.days[i].finisher # SkipFinisherText(program.session_cap_minutes[1])

\* build_program raised the validator's error on a program with a day whose
\* finisher was replaced
C26_Witness ==
    /\ entry = "build"
    /\ pc = "raised"
    /\ SkippedDays # {}
    /\ "session_cap_minutes" \in DOMAIN program
    /\ error = validate_program_constraints(program)

\* parse_set_count found a count in s: its result does not depend on the default
Parsed(s) == parse_set_count(s, 3) = parse_set_count(s, 2)

\* replace_set_count rewrites s: its result depends on the new count
Rewritten(s) == replace_set_count(s, 0) # replace_set_count(s, 1)

\* the text after the first "x" or "X" of a string, without leading whitespace
RECURSIVE AfterX(_)
AfterX(text) ==
    IF text = <<>> THEN <<>>
    ELSE IF text[1] \in {"x", "X"} THEN LStrip(Tail(text)) ELSE AfterX(Tail(text))

\* C27: parse_set_count and replace_set_count agree on what parses: a string
\* yields a parsed count iff replace_set_count rewrites it; for such a string
\* and every n >= 0 the rewritten string parses to n and keeps the rep-range
\* text; every other string is returned unchanged (trimmed) and parses to the
\* default (3, or 2 for the core).
C27_ParseReplaceAgree ==
    (entry = "sets" /\ pc = "parsed") =>
        /\ Parsed(goal) <=> Rewritten(goal)
        /\ Parsed(goal) =>
              /\ cap = days
              /\ first[1] = IntToStr(days) \o <<" ", "x", " ">> \o AfterX(Strip(goal))
              /\ AfterX(first[1]) = AfterX(Strip(goal))
        /\ ~Parsed(goal) =>
              /\ first[1] = Strip(goal)
              /\ cap = di
              /\ parse_set_count(goal, di) = di

\* " 3X0" was rewritten to "2 x 0" and read back as 2 with the core's default
C27_Witness ==
    /\ entry = "sets"
    /\ pc = "parsed"
    /\ goal = <<" ", "3", "X", "0">>
    /\ days = 2
    /\ first = << <<"2", " ", "x", " ", "0">> >>
    /\ cap = 2
    /\ di = 2

\* the exercises of the program in the order collect_unique_exercises visits them
Visited == DayExercises(program.days)

FirstVisit(key) ==
    CHOOSE p \in 1..Len(Visited) :
        /\ Visited[p].canonical_key = key
        /\ \A q \in 1..(p - 1) : Visited[q].canonical_key # key

\* before the call, a catalog item of the key pointed to an existing file or
\* the library directory held an image for the key
ImageAvailable(key) ==
    LET before == first[1]
    IN  \/ /\ before.catalog # Absent
           /\ key \in DOMAIN before.catalog[1].items
           /\ before.catalog[1].items[key].image_path \in before.existing
        \/ \E e \in 1..Len(Extensions) : LibraryPath(slugify(key), Extensions[e]) \in before.existing

\* C28: the manifest resolve_images_for_program writes has exactly one credit
\* record per distinct canonical_key of the program, in first-occurrence
\* order; a record has kind 'curated_library' and a non-empty image_path iff a
\* catalog entry with an existing file or a local library image exists for
\* its key, and kind 'missing' with an empty image_path otherwise.
C28_ManifestCredits ==
    (entry = "images" /\ pc = "resolved") =>
        LET credits == files.manifest[1].credits
        IN  /\ {credits[i].canonical_key : i \in 1..Len(credits)}
                  = {Visited[p].canonical_key : p \in 1..Len(Visited)}
            /\ \A i, j \in 1..Len(credits) :
                  i < j => FirstVisit(credits[i].canonical_key) < FirstVisit(credits[j].canonical_key)
            /\ \A i \in 1..Len(credits) :
                  IF ImageAvailable(credits[i].canonical_key)
                  THEN credits[i].kind = "curated_library" /\ credits[i].image_path # NoPath
                  ELSE credits[i].kind = "missing" /\ credits[i].image_path = NoPath

\* a two-day program that repeats its keys was resolved to a manifest with a
\* curated and a missing record
C28_Witness ==
    /\ entry = "images"
    /\ pc = "resolved"
    /\ Len(program.days) = 2
    /\ Len(files.manifest[1].credits) = 3
    /\ \E i, j \in 1..3 :
          /\ files.manifest[1].credits[i].kind = "curated_library"
          /\ files.manifest[1].credits[j].kind = "missing"

\* sets_reps strings an edit of a saved program may write
EditedSetsReps == {Str_2x10_12, Str_4x6_8, Str_heavy}

\* the programs that differ from prog in the sets_reps of one exercise of day i
SetsEdits(prog, i) ==
    {[prog EXCEPT !.days[i].supersets[s].exercises[j].sets_reps = text] :
        s \in 1..Len(prog.days[i].supersets), j \in 1..2, text \in EditedSetsReps}
    \cup {[prog EXCEPT !.days[i].core.sets_reps = text] : text \in EditedSetsReps}

Passes(prog) == validate_program_constraints(prog) = NoError

\* C29: for a day that carries a non-zero estimated_duration_min, changing a
\* sets_reps of the day without changing the annotation never changes whether
\* validate_program_constraints passes; an annotation of 0 is treated like an
\* absent one (the estimator is consulted).
C29_VerdictFromAnnotation ==
    (entry = "validate" /\ pc \in {"returned", "raised"}) =>
        \A i \in DayIndices :
            IF program.days[i].estimated_duration_min # Absent
            THEN \A edited \in SetsEdits(program, i) : Passes(edited) <=> pc = "returned"
            ELSE validate_program_constraints(
                     [program EXCEPT !.days[i].estimated_duration_min = Present(0)])
                 = (IF pc = "returned" THEN NoError ELSE error)

\* the validator on its own passed a program with a day annotated 30 whose
\* sets are estimated over the cap of 40
C29_Witness ==
    /\ entry = "validate"
    /\ pc = "returned"
    /\ program.session_cap_minutes = Present(40)
    /\ \E i \in DayIndices :
          /\ program.days[i].estimated_duration_min = Present(30)
          /\ Estimate(i) > 40

\* every superset exercise of the day has a parseable count >= 2 and the core
\* a parseable count >= 1
StartsAboveFloors(day) ==
    /\ \A e \in 1..Len(Flatten(day.supersets)) :
          /\ Parsed(Flatten(day.supersets)[e].sets_reps)
          /\ parse_set_count(Flatten(day.supersets)[e].sets_reps, 3) >= 2
    /\ Parsed(day.core.sets_reps)
    /\ CoreCount(day) >= 1

\* round(11.5 + 7k) as Python rounds it: 11.5 + 7k ends in .5, the even
\* neighbour is 11 + 7k for odd k and 12 + 7k for even k
RepairFloor(k) == IF k % 2 = 1 THEN 11 + 7 * k ELSE 12 + 7 * k

\* build_program is past apply_goal_rules and has not raised
ProgramInRepair ==
    entry = "build" /\ pc \in {"goal_applied", "enforce_loop", "enforce_break", "enforced", "returned"}

\* validate_profile accepts a complete profile with this session length
ProfileAccepted(minutes) ==
    validate_profile([default_profile(Str_alice) EXCEPT !.session_length_minutes = minutes])
        = NoError

ShortSession ==
    /\ "session_length_minutes" \in DOMAIN profile
    /\ profile.session_length_minutes >= 1
    /\ profile.session_length_minutes <= 25

\* C30: for a day with k supersets whose exercises all start at >= 2 parseable
\* sets and whose core starts at >= 1 set, no sequence of repair steps brings
\* the estimate below round(11.5 + 7k) minutes (26 for k = 2); so build_program
\* returns no program with a two-superset day of that kind for a profile with
\* 1 <= session_length_minutes <= 25, a profile validate_profile accepts.
C30_RepairLowerBound ==
    ProgramInRepair =>
        LET applied == GoalApplied
            above == {i \in DayIndices : StartsAboveFloors(applied.days[i])}
        IN  /\ \A i \in above : Estimate(i) >= RepairFloor(Len(program.days[i].supersets))
            /\ RepairFloor(2) = 26
            /\ ShortSession =>
                  /\ ProfileAccepted(profile.session_length_minutes)
                  /\ pc = "returned" =>
                        \A i \in above : Len(program.days[i].supersets) # 2

\* build_program raised the validator's cap error for a 25-minute profile
\* after the enforcer had lowered a two-superset day to its floor estimate 26
C30_Witness ==
    /\ entry = "build"
    /\ pc = "raised"
    /\ ShortSession
    /\ profile.session_length_minutes = 25
    /\ "session_cap_minutes" \in DOMAIN program
    /\ error = validate_program_constraints(program)
    /\ \E i \in DayIndices :
          /\ Len(program.days[i].supersets) = 2
          /\ StartsAboveFloors(GoalApplied.days[i])
          /\ TotalSets(program.days[i]) < TotalSets(GoalApplied.days[i])
          /\ Estimate(i) = 26

=============================================================================
